---- MODULE Spec2Model ----
(***************************************************************************)
(* The window list of src/openrct2/interface/Window.cpp: a contiguous      *)
(* array of window records (g_window_list) with an end pointer             *)
(* (gWindowNextSlot), and the operations that open, close, reorder and     *)
(* evict windows.  Slots at or beyond gWindowNextSlot keep whatever was    *)
(* last written to them (memmove leaves a copy of the old last record      *)
(* behind), so the array is modelled whole, stale slots included.          *)
(***************************************************************************)
EXTENDS Integers, Sequences, FiniteSets, TLC

(* ------------------------------------------------------------------ *)
(* Bounds of the model.  The window limits are program constants of    *)
(* interface/Window.h scaled down.                                     *)
(* ------------------------------------------------------------------ *)
MaxOpen == 3
WINDOW_LIMIT_MIN == 0
WINDOW_LIMIT_MAX == 3
WINDOW_LIMIT_RESERVED == 1

Capacity == WINDOW_LIMIT_MAX + WINDOW_LIMIT_RESERVED
Slots == 0 .. (Capacity - 1)

NULL == -1

F_STICK_TO_BACK == "STICK_TO_BACK"
F_STICK_TO_FRONT == "STICK_TO_FRONT"
F_NO_AUTO_CLOSE == "NO_AUTO_CLOSE"
StickFlags == {F_STICK_TO_BACK, F_STICK_TO_FRONT}
ProtectFlags == {F_STICK_TO_BACK, F_STICK_TO_FRONT, F_NO_AUTO_CLOSE}

WC_MAIN_WINDOW == "WC_MAIN_WINDOW"
WC_TOP_TOOLBAR == "WC_TOP_TOOLBAR"
WC_DROPDOWN == "WC_DROPDOWN"
WC_OPTIONS == "WC_OPTIONS"
WC_RIDE == "WC_RIDE"
WC_PEEP == "WC_PEEP"
Classes ==
    {WC_MAIN_WINDOW, WC_TOP_TOOLBAR, WC_DROPDOWN, WC_OPTIONS, WC_RIDE, WC_PEEP}

(* ------------------------------------------------------------------ *)
(* Window records.  The flags F_... are the source's WF_... (a TLA+    *)
(* name cannot start with WF_).                                        *)
(* ------------------------------------------------------------------ *)
NoViewport == [present |-> FALSE, x |-> 0]
Viewport(x) == [present |-> TRUE, x |-> x]

(* The close entry of a window's event table.  "null" is a record whose  *)
(* event table pointer itself is null (a zeroed slot); "none" is a null  *)
(* close entry; the others are handlers that close further windows.      *)
HNull == [kind |-> "null", cls |-> "", number |-> 0]
HNone == [kind |-> "none", cls |-> "", number |-> 0]
HCloseClass(c) == [kind |-> "class", cls |-> c, number |-> 0]
HCloseNumber(c, k) == [kind |-> "number", cls |-> c, number |-> k]

(* A slot of the zero-initialised array that was never written.          *)
Blank ==
    [classification |-> "", number |-> 0, flags |-> {}, x |-> 0, width |-> 0,
     viewport |-> NoViewport, close |-> HNull]

Win(c, k, f, x, w, vp, h) ==
    [classification |-> c, number |-> k, flags |-> f, x |-> x, width |-> w,
     viewport |-> vp, close |-> h]

(* The windows the program opens in this model: the records the          *)
(* window-class constructors hand to open.                               *)
Templates ==
    { Win(WC_MAIN_WINDOW, 0, {F_STICK_TO_BACK}, 0, 640, Viewport(0), HNone),
      Win(WC_TOP_TOOLBAR, 0, {F_STICK_TO_FRONT}, 0, 640, NoViewport, HNone),
      Win(WC_DROPDOWN, 0, {F_STICK_TO_FRONT}, 100, 80, NoViewport, HNone),
      Win(WC_OPTIONS, 0, {}, -60, 30, NoViewport, HCloseNumber(WC_RIDE, 1)),
      Win(WC_RIDE, 0, {}, 40, 200, Viewport(43), HCloseClass(WC_RIDE)),
      Win(WC_RIDE, 1, {F_NO_AUTO_CLOSE}, 300, 200, NoViewport, HNone),
      Win(WC_PEEP, 0, {}, 10, 190, Viewport(13), HNone),
      Win(WC_PEEP, 1, {}, 200, 190, NoViewport, HNone) }

Key(rec) == <<rec.classification, rec.number>>
Keys == {Key(t) : t \in Templates}

IsSticky(rec) == rec.flags \cap StickFlags # {}
IsProtected(rec) == rec.flags \cap ProtectFlags # {}

(* ------------------------------------------------------------------ *)
(* The machine state the operations work on, and the record of what an *)
(* operation did (log).                                                *)
(* ------------------------------------------------------------------ *)
Event(e, idx, rec, st, depth) ==
    [e |-> e, idx |-> idx, cls |-> rec.classification, number |-> rec.number,
     flags |-> rec.flags, n |-> st.n, depth |-> depth, live |-> <<>>]

Stale(ev) == ev.idx >= ev.n

Logged(st, ev) == [st EXCEPT !.log = Append(@, ev)]

Live(st) == [i \in 1 .. st.n |-> st.list[i - 1]]

(* ------------------------------------------------------------------ *)
(* window_find_by_number: the first record with the class and number,  *)
(* or NULL.                                                            *)
(* ------------------------------------------------------------------ *)
window_find_by_number(st, cls, number) ==
    LET hits == {i \in 0 .. st.n - 1 :
                    st.list[i].classification = cls /\ st.list[i].number = number}
    IN  IF hits = {} THEN NULL ELSE CHOOSE i \in hits : \A j \in hits : i <= j

window_find_by_class(st, cls) ==
    LET hits == {i \in 0 .. st.n - 1 : st.list[i].classification = cls}
    IN  IF hits = {} THEN NULL ELSE CHOOSE i \in hits : \A j \in hits : i <= j

(* memmove that copies one record too few. *)
memmove_down_short(list, i, num_windows) ==
    [j \in Slots |->
        IF j >= i /\ j < i + num_windows - 1 /\ j + 1 \in Slots THEN list[j + 1]
        ELSE list[j]]

(* memmove(window, window + 1, num_windows * sizeof(rct_window)) *)
memmove_down(list, i, num_windows) ==
    [j \in Slots |->
        IF j >= i /\ j < i + num_windows /\ j + 1 \in Slots THEN list[j + 1] ELSE list[j]]

RECURSIVE window_close(_, _, _)
RECURSIVE ByClassLoop(_, _, _, _)
RECURSIVE ByNumberLoop(_, _, _, _, _)

(* window_event_close_call(w): w points at slot w, whatever it holds.  A *)
(* zeroed slot has no event table: the call dereferences a null pointer. *)
(* A handler that is already running returns at once (the handlers of    *)
(* this model guard themselves against re-entry); `active` holds the     *)
(* keys of the windows whose handler is running.                         *)
window_event_close_call(st, w, active) ==
    LET rec == st.list[w]
        s1 == Logged(st, Event("close_call", w, rec, st, Cardinality(active)))
        running == active \cup {Key(rec)}
    IN  CASE rec.close.kind = "null" -> [s1 EXCEPT !.crashed = TRUE]
          [] rec.close.kind = "none" -> s1
          [] Key(rec) \in active -> s1
          [] rec.close.kind = "class" -> ByClassLoop(s1, 0, rec.close.cls, running)
          [] OTHER -> ByNumberLoop(s1, 0, rec.close.cls, rec.close.number, running)

(* The close that takes the record out of the array before it         *)
(* invalidates its rectangle.                                          *)
CloseFound_late_invalidate(st, i, depth) ==
    LET found == st.list[i]
        s2 == IF found.viewport.present
              THEN Logged([st EXCEPT !.list[i].viewport = NoViewport],
                          Event("viewport", i, found, st, depth))
              ELSE st
        newNext == s2.n - 1
        num_windows == newNext - i
        moved == IF num_windows > 0 THEN memmove_down(s2.list, i, num_windows)
                 ELSE s2.list
        s3 == Logged([s2 EXCEPT !.n = newNext, !.list = moved],
                     Event("remove", i, found, s2, depth))
    IN  Logged(s3, Event("invalidate", i, found, s3, depth))

(* The part of window_close after the record was found again: release  *)
(* the viewport, invalidate, take the record out of the array.         *)
CloseFound(st, i, depth) ==
    LET found == st.list[i]
        s2 == IF found.viewport.present
              THEN Logged([st EXCEPT !.list[i].viewport = NoViewport],
                          Event("viewport", i, found, st, depth))
              ELSE st
        s3 == Logged(s2, Event("invalidate", i, found, s2, depth))
        newNext == s3.n - 1
        num_windows == newNext - i
        moved == IF num_windows > 0 THEN memmove_down(s3.list, i, num_windows)
                 ELSE s3.list
    IN  Logged([s3 EXCEPT !.n = newNext, !.list = moved],
               Event("remove", i, found, s3, depth))

(* window_close that goes on with the pointer it was given instead of *)
(* finding the record again after the close handler ran.              *)
window_close_no_refetch(st, w, active) ==
    IF w = NULL THEN st
    ELSE LET rec == st.list[w]
             depth == Cardinality(active)
             s0 == Logged(st, Event("close", w, rec, st, depth))
             s1 == window_event_close_call(s0, w, active)
         IN  IF s1.crashed \/ s1.n = 0 THEN s1 ELSE CloseFound(s1, w, depth)

window_close(st, w, active) ==
    IF w = NULL THEN st
    ELSE LET rec == st.list[w]
             depth == Cardinality(active)
             s0 == Logged(st, Event("close", w, rec, st, depth))
             s1 == window_event_close_call(s0, w, active)
             i == window_find_by_number(s1, rec.classification, rec.number)
         IN  IF s1.crashed \/ i = NULL THEN s1 ELSE CloseFound(s1, i, depth)

(* The scan that goes on from the next slot after a removal instead of *)
(* starting again at the head of the list.                             *)
ByClassLoop_no_restart(st, w, cls, active) ==
    IF st.crashed \/ w >= st.n THEN st
    ELSE IF st.list[w].classification = cls
         THEN ByClassLoop(window_close(st, w, active), w + 1, cls, active)
         ELSE ByClassLoop(st, w + 1, cls, active)

(* for (w = g_window_list; w < RCT2_NEW_WINDOW;) of window_close_by_class *)
ByClassLoop(st, w, cls, active) ==
    IF st.crashed \/ w >= st.n THEN st
    ELSE IF st.list[w].classification = cls
         THEN ByClassLoop(window_close(st, w, active), 0, cls, active)
         ELSE ByClassLoop(st, w + 1, cls, active)

window_close_by_class(st, cls) == ByClassLoop(st, 0, cls, {})

ByNumberLoop(st, w, cls, number, active) ==
    IF st.crashed \/ w >= st.n THEN st
    ELSE IF st.list[w].classification = cls /\ st.list[w].number = number
         THEN ByNumberLoop(window_close(st, w, active), 0, cls, number, active)
         ELSE ByNumberLoop(st, w + 1, cls, number, active)

window_close_by_number(st, cls, number) == ByNumberLoop(st, 0, cls, number, {})

(* ------------------------------------------------------------------ *)
(* open: the window-class constructors (window_create) are not part of *)
(* Window.cpp.  The record goes in front of the windows that are not    *)
(* order-exempt: a stick-to-front record at the end, a stick-to-back    *)
(* record behind every other kind, any other record just before the     *)
(* first stick-to-front window.                                         *)
(* ------------------------------------------------------------------ *)
FirstIndex(st, S) ==
    IF S = {} THEN st.n ELSE CHOOSE i \in S : \A j \in S : i <= j

window_create(st, t) ==
    LET p == IF F_STICK_TO_FRONT \in t.flags THEN st.n
             ELSE IF F_STICK_TO_BACK \in t.flags
             THEN FirstIndex(st, {i \in 0 .. st.n - 1 :
                                    F_STICK_TO_BACK \notin st.list[i].flags})
             ELSE FirstIndex(st, {i \in 0 .. st.n - 1 :
                                    F_STICK_TO_FRONT \in st.list[i].flags})
        placed == [j \in Slots |->
                     IF j < p THEN st.list[j]
                     ELSE IF j = p THEN t
                     ELSE IF j <= st.n THEN st.list[j - 1]
                     ELSE st.list[j]]
    IN  [st |-> Logged([st EXCEPT !.list = placed, !.n = st.n + 1],
                       Event("open", p, t, st, 0)),
         ret |-> p]

(* ------------------------------------------------------------------ *)
(* window_bring_to_front                                               *)
(* ------------------------------------------------------------------ *)
(* The scan for v that does not skip the stick-to-front windows. *)
LastNotFront_any(st, v) == v

RECURSIVE LastNotFront(_, _)
LastNotFront(st, v) ==
    IF v >= 0 /\ F_STICK_TO_FRONT \in st.list[v].flags
    THEN LastNotFront(st, v - 1) ELSE v

(* do { swap *w and *(w + 1); w++; } while (w != v); *)
(* The swap loop that stops one slot early. *)
RECURSIVE SwapUp(_, _, _)
SwapUp_early(list, w, v) ==
    IF w + 1 = v THEN list
    ELSE SwapUp([list EXCEPT ![w] = list[w + 1], ![w + 1] = list[w]], w + 1, v - 1)

SwapUp(list, w, v) ==
    IF w + 1 \notin Slots THEN list
    ELSE LET swapped == [list EXCEPT ![w] = list[w + 1], ![w + 1] = list[w]]
         IN  IF w + 1 = v THEN swapped ELSE SwapUp(swapped, w + 1, v)

(* The test that looks at the left edge of the window. *)
OffLeftEdge_left(rec) == rec.x < 20

(* if (w->x + w->width < 20) *)
OffLeftEdge(rec) == rec.x + rec.width < 20

window_bring_to_front(st, w) ==
    IF IsSticky(st.list[w]) THEN [st |-> st, ret |-> w]
    ELSE LET v == LastNotFront(st, st.n - 1)
             moves == v >= 0 /\ w # v
             s1 == IF moves
                   THEN Logged([st EXCEPT !.list = SwapUp(st.list, w, v)],
                               Event("invalidate", v, st.list[w], st, 0))
                   ELSE st
             w1 == IF moves THEN v ELSE w
             rec == s1.list[w1]
             i == 20 - rec.x
             s2 == IF OffLeftEdge(rec)
                   THEN Logged(
                          [s1 EXCEPT !.list[w1].x = rec.x + i,
                                     !.list[w1].viewport.x =
                                        IF rec.viewport.present THEN @ + i ELSE @],
                          Event("invalidate", w1, rec, s1, 0))
                   ELSE s1
         IN  [st |-> s2, ret |-> w1]

(* ------------------------------------------------------------------ *)
(* The bulk-close operations.  Each reads w->flags of the slot its     *)
(* pointer is at; a read at or beyond gWindowNextSlot is logged.       *)
(* ------------------------------------------------------------------ *)
ReadSlot(st, w) ==
    IF w >= st.n THEN Logged(st, Event("stale_read", w, st.list[w], st, 0)) ELSE st

RECURSIVE CloseTopLoop(_, _)
(* for (w = RCT2_NEW_WINDOW - 1; w >= g_window_list; w--) of window_close_top *)
CloseTopLoop(st, w) ==
    IF st.crashed \/ w < 0 THEN st
    ELSE IF ~IsSticky(st.list[w]) THEN window_close(st, w, {})
         ELSE CloseTopLoop(st, w - 1)

(* blocked: the scenario editor is at a step other than the landscape  *)
(* editor.                                                             *)
window_close_top(st, blocked) ==
    LET s1 == window_close_by_class(st, WC_DROPDOWN)
    IN  IF blocked THEN s1 ELSE CloseTopLoop(s1, s1.n - 1)

(* for (w = RCT2_LAST_WINDOW; w >= g_window_list; w--) of window_close_all *)
RECURSIVE CloseAllLoop(_, _)
CloseAllLoop(st, w) ==
    IF st.crashed \/ w < 0 THEN st
    ELSE LET s0 == ReadSlot(st, w)
         IN  IF ~IsSticky(s0.list[w])
             THEN CloseAllLoop(window_close(s0, w, {}), w - 1)
             ELSE CloseAllLoop(s0, w - 1)

window_close_all(st) ==
    LET s1 == window_close_by_class(st, WC_DROPDOWN)
    IN  CloseAllLoop(s1, s1.n - 1)

(* for (w = g_window_list; w <= RCT2_LAST_WINDOW; w++): after a close   *)
(* the body sets w = g_window_list and the loop's w++ then runs.        *)
RECURSIVE ExceptClassLoop(_, _, _)
ExceptClassLoop(st, w, cls) ==
    IF st.crashed \/ w > st.n - 1 THEN st
    ELSE IF st.list[w].classification # cls /\ ~IsSticky(st.list[w])
         THEN ExceptClassLoop(window_close(st, w, {}), 0 + 1, cls)
         ELSE ExceptClassLoop(st, w + 1, cls)

window_close_all_except_class(st, cls) ==
    ExceptClassLoop(window_close_by_class(st, WC_DROPDOWN), 0, cls)

(* The loop of window_close_all_except_flags that ignores its argument. *)
RECURSIVE ExceptFlagsLoop(_, _, _)
ExceptFlagsLoop_all(st, w, flags) ==
    IF st.crashed \/ w < 0 THEN st
    ELSE ExceptFlagsLoop(window_close(ReadSlot(st, w), w, {}), w - 1, flags)

ExceptFlagsLoop(st, w, flags) ==
    IF st.crashed \/ w < 0 THEN st
    ELSE LET s0 == ReadSlot(st, w)
         IN  IF s0.list[w].flags \cap flags = {}
             THEN ExceptFlagsLoop(window_close(s0, w, {}), w - 1, flags)
             ELSE ExceptFlagsLoop(s0, w - 1, flags)

window_close_all_except_flags(st, flags) == ExceptFlagsLoop(st, st.n - 1, flags)

(* ------------------------------------------------------------------ *)
(* window_set_window_limit and window_close_surplus                    *)
(* ------------------------------------------------------------------ *)
Min(a, b) == IF a < b THEN a ELSE b
Max(a, b) == IF a > b THEN a ELSE b
Clamp(low, x, high) == Min(Max(low, x), high)

(* The number of open windows as window_close_surplus counts them. *)
SurplusCount(st) == IF st.n < WINDOW_LIMIT_MAX THEN st.n ELSE WINDOW_LIMIT_MAX

(* The amount to close without the reserved slots. *)
SurplusDiff_no_reserve(count, cap) == count - cap

SurplusDiff(count, cap) == count - WINDOW_LIMIT_RESERVED - cap

(* The first window without a protection flag, or RCT2_NEW_WINDOW. *)
FirstClosable(st) ==
    FirstIndex(st, {i \in 0 .. st.n - 1 : ~IsProtected(st.list[i])})

RoundEvent(w, st) ==
    [e |-> "round", idx |-> w,
     cls |-> IF w \in Slots THEN st.list[w].classification ELSE "",
     number |-> IF w \in Slots THEN st.list[w].number ELSE 0,
     flags |-> IF w \in Slots THEN st.list[w].flags ELSE {},
     n |-> st.n, depth |-> 0, live |-> Live(st)]

RECURSIVE SurplusLoop(_, _, _, _)
SurplusLoop(st, i, diff, avoid_classification) ==
    IF st.crashed \/ i >= diff THEN st
    ELSE LET w == FirstClosable(st)
             s0 == Logged(st, RoundEvent(w, st))
         IN  IF w \notin Slots THEN [s0 EXCEPT !.crashed = TRUE]
             ELSE IF avoid_classification # ""
                     /\ s0.list[w].classification = avoid_classification
             THEN SurplusLoop(s0, i + 1, diff, avoid_classification)
             ELSE SurplusLoop(window_close(s0, w, {}), i + 1, diff,
                              avoid_classification)

window_close_surplus(st, cap, avoid_classification) ==
    SurplusLoop(st, 0, SurplusDiff(SurplusCount(st), cap), avoid_classification)

window_set_window_limit(st, prev, value) ==
    LET val == Clamp(WINDOW_LIMIT_MIN, value, WINDOW_LIMIT_MAX)
    IN  [st |-> IF val < prev THEN window_close_surplus(st, val, WC_OPTIONS) ELSE st,
         limit |-> val]

(* ------------------------------------------------------------------ *)
(* State, initial state and the actions.                               *)
(* ------------------------------------------------------------------ *)
VARIABLES g_window_list, gWindowNextSlot, window_limit, crashed, last

(* The active text box: whether one is in use, and the window and widget *)
(* that own it.                                                          *)
VARIABLES gUsingWidgetTextBox, gCurrentTextBox

textVars == <<gUsingWidgetTextBox, gCurrentTextBox>>

(* The camera rotation, and the rotations made so far: one record for  *)
(* each rotateCamera that found a viewport.                              *)
VARIABLES gCurrentRotation, turns

cameraVars == <<gCurrentRotation, turns>>

(* The game loop of the context: the finished flag, where the main     *)
(* thread and the console thread are, the frames run so far (counted   *)
(* up to MaxFrames), the frame mode and tick of the loop, and the      *)
(* brace depth and prompt of the console.  `raced` holds while a write *)
(* of the flag by the console thread has not been seen by the main     *)
(* thread.                                                             *)
VARIABLES _finished, mainThread, replThread, frames, variableFrame, _lastTick,
          indent, more, raced

loopVars ==
    <<_finished, mainThread, replThread, frames, variableFrame, _lastTick, indent,
      more, raced>>

(* The ticks counted towards the next periodic-tick pass of updateAll. *)
VARIABLES gWindowUpdateTicks

(* The wheel position seen by the last wheel pass, the input flags,    *)
(* and the tool mode: the bound widget, the tool and the map selection *)
(* flags.                                                              *)
VARIABLES _previousAbsoluteWheel, gInputFlags, gCurrentToolWidget, gCurrentToolId,
          gMapSelectFlags

inputVars ==
    <<_previousAbsoluteWheel, gInputFlags, gCurrentToolWidget, gCurrentToolId,
      gMapSelectFlags>>

(* The number of window moves made so far, counted up to MaxMoves. *)
VARIABLES moves

(* The ride music heard in the viewports, the channels that play it,   *)
(* and the rides.                                                      *)
VARIABLES _musicInstances, _musicChannels, rides

musicVars == <<_musicInstances, _musicChannels, rides>>

(* The console inputs handed to the script engine and not evaluated    *)
(* yet, and where the evaluations so far were made.                    *)
VARIABLES _evalQueue, evaluated

consoleVars == <<_evalQueue, evaluated>>

sideVars == <<inputVars, moves, musicVars, consoleVars>>

engineVars == <<cameraVars, loopVars, gWindowUpdateTicks, sideVars>>

vars ==
    <<g_window_list, gWindowNextSlot, window_limit, crashed, last, textVars,
      engineVars>>

(* No tool is bound: the widget reference is zero-initialised. *)
NoToolWidget ==
    [window_classification |-> "WC_MAIN_WINDOW", window_number |-> 0,
     widget_index |-> 0]

(* The input state and the console as constructed. *)
SideStill ==
    /\ _previousAbsoluteWheel = 0
    /\ gInputFlags = {}
    /\ gCurrentToolWidget = NoToolWidget
    /\ gCurrentToolId = 0
    /\ gMapSelectFlags = 0
    /\ moves = 0
    /\ _evalQueue = <<>>
    /\ evaluated = {}

(* No ride music, in a park without rides. *)
MusicIdle ==
    /\ _musicInstances = <<>>
    /\ _musicChannels = <<>>
    /\ rides = <<>>

(* The camera and the context as constructed. *)
EngineStill ==
    /\ gCurrentRotation = 0
    /\ turns = <<>>
    /\ _finished = FALSE
    /\ mainThread = "launch"
    /\ replThread = "none"
    /\ frames = 0
    /\ variableFrame = FALSE
    /\ _lastTick = 0
    /\ indent = 0
    /\ more = FALSE
    /\ raced = FALSE
    /\ gWindowUpdateTicks = 0

EngineIdle == EngineStill /\ SideStill /\ MusicIdle

WC_NULL == "WC_NULL"
WC_TEXTINPUT == "WC_TEXTINPUT"
WWT_LAST == "WWT_LAST"

(* widget_identifier gCurrentTextBox = { { 255, 0 }, 0 } *)
NoTextBox == [classification |-> WC_NULL, number |-> 0, widget_index |-> 0]

Machine ==
    [list |-> g_window_list, n |-> gWindowNextSlot, log |-> <<>>, crashed |-> FALSE]

NoArgs == [handle |-> NULL, cls |-> "", number |-> 0, flags |-> {}, value |-> 0]

Idle ==
    [op |-> "idle", args |-> NoArgs, ret |-> NULL, pre |-> <<>>, prelimit |-> 0,
     log |-> <<>>]

Init ==
    /\ g_window_list = [i \in Slots |-> Blank]
    /\ gWindowNextSlot = 0
    /\ window_limit = WINDOW_LIMIT_MAX
    /\ crashed = FALSE
    /\ last = Idle
    /\ gUsingWidgetTextBox = FALSE
    /\ gCurrentTextBox = NoTextBox
    /\ EngineIdle

(* An operation runs to completion and leaves its record in `last`.    *)
Commit(op, args, r, ret) ==
    /\ g_window_list' = r.list
    /\ gWindowNextSlot' = r.n
    /\ crashed' = r.crashed
    /\ last' = [op |-> op, args |-> args, ret |-> ret, pre |-> Live(Machine),
                prelimit |-> window_limit, log |-> r.log]
    /\ UNCHANGED <<textVars, engineVars>>

Ready == last.op = "idle" /\ ~crashed

Open ==
    /\ Ready
    /\ gWindowNextSlot < MaxOpen
    /\ gWindowNextSlot < Capacity
    /\ \E t \in Templates :
          /\ window_find_by_number(Machine, t.classification, t.number) = NULL
          /\ LET r == window_create(Machine, t)
             IN  Commit("open", [NoArgs EXCEPT !.cls = t.classification,
                                               !.number = t.number], r.st, r.ret)
    /\ UNCHANGED window_limit

Close ==
    /\ Ready
    /\ \E w \in {NULL} \cup (0 .. gWindowNextSlot - 1) :
          Commit("close", [NoArgs EXCEPT !.handle = w],
                 window_close(Machine, w, {}), NULL)
    /\ UNCHANGED window_limit

BringToFront ==
    /\ Ready
    /\ \E w \in 0 .. gWindowNextSlot - 1 :
          LET r == window_bring_to_front(Machine, w)
          IN  Commit("bring_to_front", [NoArgs EXCEPT !.handle = w], r.st, r.ret)
    /\ UNCHANGED window_limit

(* The caller has taken the operation's result. *)
Return ==
    /\ last.op # "idle"
    /\ last' = Idle
    /\ UNCHANGED <<g_window_list, gWindowNextSlot, window_limit, crashed, textVars,
                   engineVars>>

NextOrder == Open \/ Close \/ BringToFront \/ Return

SpecOrder == Init /\ [][NextOrder]_vars

FlagArgs == {{}, StickFlags, {F_NO_AUTO_CLOSE}, ProtectFlags}
LimitArgs == (WINDOW_LIMIT_MIN - 1) .. (WINDOW_LIMIT_MAX + 1)

CloseByClass ==
    /\ Ready
    /\ \E c \in Classes :
          Commit("close_by_class", [NoArgs EXCEPT !.cls = c],
                 window_close_by_class(Machine, c), NULL)
    /\ UNCHANGED window_limit

CloseByNumber ==
    /\ Ready
    /\ \E k \in Keys :
          Commit("close_by_number", [NoArgs EXCEPT !.cls = k[1], !.number = k[2]],
                 window_close_by_number(Machine, k[1], k[2]), NULL)
    /\ UNCHANGED window_limit

CloseTop ==
    /\ Ready
    /\ \E blocked \in BOOLEAN :
          Commit("close_top", [NoArgs EXCEPT !.value = IF blocked THEN 1 ELSE 0],
                 window_close_top(Machine, blocked), NULL)
    /\ UNCHANGED window_limit

CloseAll ==
    /\ Ready
    /\ Commit("close_all", NoArgs, window_close_all(Machine), NULL)
    /\ UNCHANGED window_limit

CloseAllExceptClass ==
    /\ Ready
    /\ \E c \in Classes :
          Commit("close_all_except_class", [NoArgs EXCEPT !.cls = c],
                 window_close_all_except_class(Machine, c), NULL)
    /\ UNCHANGED window_limit

CloseAllExceptFlags ==
    /\ Ready
    /\ \E f \in FlagArgs :
          Commit("close_all_except_flags", [NoArgs EXCEPT !.flags = f],
                 window_close_all_except_flags(Machine, f), NULL)
    /\ UNCHANGED window_limit

SetWindowLimit ==
    /\ Ready
    /\ \E value \in LimitArgs :
          LET r == window_set_window_limit(Machine, window_limit, value)
          IN  /\ Commit("set_window_limit", [NoArgs EXCEPT !.value = value],
                        r.st, NULL)
              /\ window_limit' = r.limit

NextBulk ==
    \/ Open
    \/ CloseByClass
    \/ CloseByNumber
    \/ CloseTop
    \/ CloseAll
    \/ CloseAllExceptClass
    \/ CloseAllExceptFlags
    \/ Return

SpecBulk == Init /\ [][NextBulk]_vars

NextLimit == Open \/ Close \/ SetWindowLimit \/ Return

SpecLimit == Init /\ [][NextLimit]_vars

(* ------------------------------------------------------------------ *)
(* Properties.                                                         *)
(* ------------------------------------------------------------------ *)
Now == Live(Machine)
LogEvents == {last.log[k] : k \in 1 .. Len(last.log)}
PreRec == last.pre[last.args.handle + 1]
KeysDistinct(seq) ==
    \A i, j \in 1 .. Len(seq) : i # j => Key(seq[i]) # Key(seq[j])

C2_Compaction ==
    (/\ last.op = "close"
     /\ last.args.handle # NULL
     /\ PreRec.close.kind = "none")
    => /\ gWindowNextSlot = Len(last.pre) - 1
       /\ \A j \in 0 .. gWindowNextSlot - 1 :
            g_window_list[j] = IF j < last.args.handle THEN last.pre[j + 1]
                               ELSE last.pre[j + 2]
       /\ KeysDistinct(Now)

(* A window with windows above and below it was closed. *)
C2_Witness ==
    /\ last.op = "close"
    /\ last.args.handle = 1
    /\ Len(last.pre) = 3
    /\ PreRec.close.kind = "none"

(* C3: close(null) changes nothing and invokes no handler; when the      *)
(* close handler has itself removed the window being closed, close       *)
(* removes no further window, releases no viewport, invalidates nothing. *)
HandlerRemovedTarget ==
    /\ last.op = "close"
    /\ last.args.handle # NULL
    /\ \E e \in LogEvents :
          e.e = "remove" /\ e.depth > 0 /\ <<e.cls, e.number>> = Key(PreRec)

C3_CloseNoOp ==
    /\ (last.op = "close" /\ last.args.handle = NULL)
          => (Now = last.pre /\ last.log = <<>>)
    /\ HandlerRemovedTarget
          => \A e \in LogEvents :
                e.depth = 0 => e.e \notin {"remove", "viewport", "invalidate"}

(* The handler of the closed window removed it while other windows     *)
(* stayed open.                                                        *)
C3_Witness == HandlerRemovedTarget /\ gWindowNextSlot > 0

(* C8: bringToFront(w) of a window without a stick flag moves it to the  *)
(* slot just before the first stick-to-front window (the last slot if    *)
(* there is none), moves the records between back by one, leaves the     *)
(* others in their slots and returns the new slot; for a stick-to-back   *)
(* or stick-to-front window nothing changes.                             *)
FirstFrontOrEnd(seq) ==
    LET S == {i \in 1 .. Len(seq) : F_STICK_TO_FRONT \in seq[i].flags}
    IN  IF S = {} THEN Len(seq) + 1 ELSE CHOOSE i \in S : \A j \in S : i <= j

C8_BringToFront ==
    last.op = "bring_to_front" =>
        LET w == last.args.handle
            t == FirstFrontOrEnd(last.pre) - 2
        IN  IF IsSticky(PreRec)
            THEN Now = last.pre /\ last.ret = w
            ELSE /\ last.ret = t
                 /\ gWindowNextSlot = Len(last.pre)
                 /\ Key(g_window_list[t]) = Key(PreRec)
                 /\ \A j \in 0 .. gWindowNextSlot - 1 :
                      /\ (j < w \/ j > t) => g_window_list[j] = last.pre[j + 1]
                      /\ (j >= w /\ j < t) => g_window_list[j] = last.pre[j + 2]

(* A window was moved up by two slots. *)
C8_Witness ==
    /\ last.op = "bring_to_front"
    /\ ~IsSticky(PreRec)
    /\ last.ret = last.args.handle + 2

(* C4: closeByClass(c) and closeByClassAndNumber(c, k) terminate and     *)
(* leave no window of class c (of class c and number k), also when close *)
(* handlers close other windows; every other window that no handler      *)
(* closed is still there, in its original relative order.                *)
IsTarget(rec) ==
    IF last.op = "close_by_class" THEN rec.classification = last.args.cls
    ELSE Key(rec) = <<last.args.cls, last.args.number>>

StillOpen(rec) == \E i \in 1 .. Len(Now) : Now[i] = rec

TopLevelCloses ==
    {k \in 1 .. Len(last.log) : last.log[k].e = "close" /\ last.log[k].depth = 0}

C4_CloseByClass ==
    last.op \in {"close_by_class", "close_by_number"} =>
        /\ \A i \in 1 .. Len(Now) : ~IsTarget(Now[i])
        /\ \A i \in 1 .. Len(last.pre) :
              (~IsTarget(last.pre[i]) /\ ~StillOpen(last.pre[i]))
                 => \E e \in LogEvents :
                       /\ e.e = "remove" /\ e.depth > 0
                       /\ <<e.cls, e.number>> = Key(last.pre[i])
        /\ SelectSeq(last.pre, StillOpen) = Now
        /\ Cardinality(TopLevelCloses) <= Len(last.pre)

(* closeByClass closed two windows of the class, a handler closed        *)
(* nothing else, and a window of another class is still open.            *)
C4_Witness ==
    /\ last.op = "close_by_class"
    /\ Cardinality({i \in 1 .. Len(last.pre) : IsTarget(last.pre[i])}) = 2
    /\ gWindowNextSlot = 1

(* C5: after closeAllExceptClass(c) every window left has class c or a   *)
(* stick flag.                                                           *)
C5_ExceptClassClosesAll ==
    last.op = "close_all_except_class" =>
        \A i \in 1 .. Len(Now) :
            Now[i].classification = last.args.cls \/ IsSticky(Now[i])

(* C6 as claimed: no bulk-close operation ever selects a stick-to-back   *)
(* or stick-to-front window for closing.                                 *)
BulkOps == {"close_all", "close_all_except_class", "close_all_except_flags", "close_top"}

Selected == {e \in LogEvents : e.e = "close" /\ e.depth = 0}
RemovedTop == {e \in LogEvents : e.e = "remove" /\ e.depth = 0}

C6_NoStickySelected ==
    last.op \in BulkOps => \A e \in Selected : e.flags \cap StickFlags = {}

(* C6 as amended: closeAll, closeAllExceptClass and closeTop select only *)
(* windows of class WC_DROPDOWN (whatever their flags) and windows with  *)
(* no stick flag; closeAllExceptFlags(f) selects only windows that have  *)
(* none of the flags f.                                                  *)
C6_SelectionRule ==
    /\ last.op \in {"close_all", "close_all_except_class", "close_top"} =>
          \A e \in Selected \cup RemovedTop :
              e.cls = WC_DROPDOWN \/ e.flags \cap StickFlags = {}
    /\ last.op = "close_all_except_flags" =>
          \A e \in Selected \cup RemovedTop : e.flags \cap last.args.flags = {}

(* closeAllExceptFlags closed one window and spared one that has a flag  *)
(* it was given.                                                         *)
C6_Witness ==
    /\ last.op = "close_all_except_flags"
    /\ RemovedTop # {}
    /\ \E i \in 1 .. Len(Now) : Now[i].flags \cap last.args.flags # {}

(* C7: during a bulk close, close is only invoked on a slot that holds   *)
(* an open window and no record beyond the end of the list is read.      *)
C7_NoStaleSlot ==
    last.op \in {"close_all", "close_all_except_flags", "close_all_except_class",
                 "close_by_class"} =>
        /\ \A e \in Selected : ~Stale(e)
        /\ \A e \in LogEvents : e.e # "stale_read"

RoundAt(k) == last.log[k].e = "round"
Rounds == {k \in 1 .. Len(last.log) : RoundAt(k)}
FoundUnprotected(k) == last.log[k].idx < last.log[k].n

FirstUnprotected(seq) ==
    LET S == {i \in 1 .. Len(seq) : seq[i].flags \cap ProtectFlags = {}}
    IN  IF S = {} THEN 0 ELSE CHOOSE i \in S : \A j \in S : i <= j

C10_SurplusSparesProtected ==
    last.op = "set_window_limit" =>
        /\ \A e \in Selected \cup RemovedTop :
              /\ e.flags \cap ProtectFlags = {}
              /\ e.cls # WC_OPTIONS
              /\ ~Stale(e)
        /\ (\A i \in 1 .. Len(last.pre) : IsProtected(last.pre[i]))
              => (Selected = {} /\ Now = last.pre)

(* ------------------------------------------------------------------ *)
(* The widget text box: window_start_textbox, window_cancel_textbox    *)
(* and window_update_textbox.                                          *)
(* ------------------------------------------------------------------ *)
MaxWidgetIndex == 1

SlotRecord(st, w) == IF w = NULL THEN Blank ELSE st.list[w]

(* window_event_textinput_call(w, widgetIndex, text) reads               *)
(* w->event_handlers first: with w null that is a null dereference.      *)
window_event_textinput_call(st, w, widgetIndex) ==
    LET s1 == Logged(st, Event("textinput", w, SlotRecord(st, w), st, 0))
    IN  IF w = NULL THEN [s1 EXCEPT !.crashed = TRUE] ELSE s1

(* widget_invalidate(w, widgetIndex): assert(w != nullptr), then reads   *)
(* w->widgets.                                                           *)
widget_invalidate(st, w, widgetIndex) ==
    LET s1 == Logged(st, Event("widget_invalidate", w, SlotRecord(st, w), st, 0))
    IN  IF w = NULL THEN [s1 EXCEPT !.crashed = TRUE] ELSE s1

TextState(st, using, box) == [st |-> st, using |-> using, box |-> box]

window_cancel_textbox(st, using, box) ==
    IF ~using THEN TextState(st, using, box)
    ELSE LET w == window_find_by_number(st, box.classification, box.number)
             s1 == window_event_textinput_call(st, w, box.widget_index)
             s2 == widget_invalidate(s1, w, box.widget_index)
         IN  IF s1.crashed THEN TextState(s1, using, box)
             ELSE TextState(s2, FALSE, [NoTextBox EXCEPT !.widget_index = WWT_LAST])

window_update_textbox(st, using, box) ==
    IF ~using THEN st
    ELSE LET w == window_find_by_number(st, box.classification, box.number)
             s1 == widget_invalidate(st, w, box.widget_index)
         IN  IF s1.crashed THEN s1
             ELSE window_event_textinput_call(s1, w, box.widget_index)

window_start_textbox(st, using, box, call_w, call_widget) ==
    LET owner == st.list[call_w]
        c == IF using THEN window_cancel_textbox(st, using, box)
             ELSE TextState(st, using, box)
        mine == [classification |-> owner.classification,
                 number |-> owner.number, widget_index |-> call_widget]
    IN  IF c.st.crashed THEN c
        ELSE TextState(window_close_by_class(c.st, WC_TEXTINPUT), TRUE, mine)

CommitText(op, args, r) ==
    /\ g_window_list' = r.st.list
    /\ gWindowNextSlot' = r.st.n
    /\ crashed' = r.st.crashed
    /\ gUsingWidgetTextBox' = r.using
    /\ gCurrentTextBox' = r.box
    /\ last' = [op |-> op, args |-> args, ret |-> NULL, pre |-> Live(Machine),
                prelimit |-> window_limit, log |-> r.st.log]
    /\ UNCHANGED <<window_limit, engineVars>>

StartTextbox ==
    /\ Ready
    /\ \E w \in 0 .. gWindowNextSlot - 1, widget \in 0 .. MaxWidgetIndex :
          CommitText("start_textbox", [NoArgs EXCEPT !.handle = w, !.value = widget],
                     window_start_textbox(Machine, gUsingWidgetTextBox,
                                          gCurrentTextBox, w, widget))

CancelTextbox ==
    /\ Ready
    /\ CommitText("cancel_textbox", NoArgs,
                  window_cancel_textbox(Machine, gUsingWidgetTextBox, gCurrentTextBox))

UpdateTextbox ==
    /\ Ready
    /\ CommitText("update_textbox", NoArgs,
                  TextState(window_update_textbox(Machine, gUsingWidgetTextBox,
                                                  gCurrentTextBox),
                            gUsingWidgetTextBox, gCurrentTextBox))

NextTextbox ==
    \/ Open
    \/ Close
    \/ StartTextbox
    \/ CancelTextbox
    \/ UpdateTextbox
    \/ Return

SpecTextbox == Init /\ [][NextTextbox]_vars

(* C11: cancelTextbox and updateTextbox dispatch the text-input event   *)
(* and invalidate a widget only on a window that was found: no such     *)
(* call is made with a null window.                                     *)
C11_NoNullDispatch ==
    last.op \in {"cancel_textbox", "update_textbox"}
        => \A ev \in LogEvents :
              ev.e \in {"textinput", "widget_invalidate"} => ev.idx # NULL

(* ------------------------------------------------------------------ *)
(* Widget tables: hit testing (window_find_widget_from_point) and the  *)
(* mapping between scroll widgets and scroll regions.  A table is the  *)
(* array w->widgets, ended by a widget of type WWT_LAST; widget i of   *)
(* the source is element i + 1 of the sequence.                        *)
(* ------------------------------------------------------------------ *)
MaxWidgets == 2
MaxCoord == 4

WWT_EMPTY == "WWT_EMPTY"
WWT_BUTTON == "WWT_BUTTON"
WWT_DROPDOWN == "WWT_DROPDOWN"
WWT_SCROLL == "WWT_SCROLL"
WidgetTypes == {WWT_EMPTY, WWT_BUTTON, WWT_DROPDOWN, WWT_SCROLL}

F_NO_BACKGROUND == "NO_BACKGROUND"
F_TRANSPARENT == "TRANSPARENT"

Widget(t, l, tp, r, b) ==
    [type |-> t, left |-> l, top |-> tp, right |-> r, bottom |-> b]
Terminator == Widget(WWT_LAST, 0, 0, 0, 0)

WidgetRects == {<<0, 0, 1, 1>>, <<1, 1, 2, 3>>}
WidgetSet ==
    {Widget(t, r[1], r[2], r[3], r[4]) : t \in WidgetTypes, r \in WidgetRects}

RECURSIVE SeqsUpTo(_, _)
SeqsUpTo(S, k) ==
    IF k = 0 THEN {<<>>}
    ELSE LET shorter == SeqsUpTo(S, k - 1)
         IN  shorter \cup {Append(q, e) : q \in {r \in shorter : Len(r) = k - 1},
                                          e \in S}

WidgetTables == {Append(q, Terminator) : q \in SeqsUpTo(WidgetSet, MaxWidgets)}

(* A window record with the fields hit testing and drawing read.        *)
Pane(c, k, f, x, y, w, h, widgets) ==
    [classification |-> c, number |-> k, flags |-> f, x |-> x, width |-> w,
     viewport |-> NoViewport, close |-> HNone,
     y |-> y, height |-> h, widgets |-> widgets]

WidgetAt(w, i) == w.widgets[i + 1]

WidgetContains(w, widget, x, y) ==
    /\ x >= w.x + widget.left
    /\ x <= w.x + widget.right
    /\ y >= w.y + widget.top
    /\ y <= w.y + widget.bottom

(* The scan that keeps the first widget found instead of the last. *)
RECURSIVE FindWidgetLoop_first(_, _, _, _, _)
FindWidgetLoop_first(w, x, y, i, widget_index) ==
    LET widget == WidgetAt(w, i)
    IN  IF widget.type = WWT_LAST THEN widget_index
        ELSE IF /\ widget.type # WWT_EMPTY
                /\ WidgetContains(w, widget, x, y)
                /\ widget_index = -1
             THEN FindWidgetLoop_first(w, x, y, i + 1, i)
             ELSE FindWidgetLoop_first(w, x, y, i + 1, widget_index)

RECURSIVE FindWidgetLoop(_, _, _, _, _)
FindWidgetLoop(w, x, y, i, widget_index) ==
    LET widget == WidgetAt(w, i)
    IN  IF widget.type = WWT_LAST THEN widget_index
        ELSE IF widget.type # WWT_EMPTY /\ WidgetContains(w, widget, x, y)
             THEN FindWidgetLoop(w, x, y, i + 1, i)
             ELSE FindWidgetLoop(w, x, y, i + 1, widget_index)

(* window_find_widget_from_point, after the window's invalidate handler *)
(* has prepared the widget table.                                       *)
window_find_widget_from_point(w, x, y) ==
    LET widget_index == FindWidgetLoop(w, x, y, 0, -1)
    IN  IF widget_index # -1 /\ WidgetAt(w, widget_index).type = WWT_DROPDOWN
        THEN widget_index + 1
        ELSE widget_index

(* window_get_widget_index: the index of the widget a pointer into the  *)
(* table points at; a pointer is modelled by the index it points at.    *)
RECURSIVE WidgetIndexLoop(_, _, _)
WidgetIndexLoop(w, widget, i) ==
    IF WidgetAt(w, i).type = WWT_LAST THEN -1
    ELSE IF widget = i THEN i
    ELSE WidgetIndexLoop(w, widget, i + 1)

window_get_widget_index(w, widget) == WidgetIndexLoop(w, widget, 0)

(* The count that takes every non-empty widget for a scroll widget. *)
RECURSIVE ScrollIndexLoop_nonempty(_, _, _, _)
ScrollIndexLoop_nonempty(w, targetWidgetIndex, widgetIndex, scrollIndex) ==
    LET widget == WidgetAt(w, widgetIndex)
    IN  IF widget.type = WWT_LAST \/ widgetIndex = targetWidgetIndex THEN scrollIndex
        ELSE ScrollIndexLoop_nonempty(w, targetWidgetIndex, widgetIndex + 1,
                 IF widget.type # WWT_EMPTY THEN scrollIndex + 1 ELSE scrollIndex)

RECURSIVE ScrollIndexLoop(_, _, _, _)
ScrollIndexLoop(w, targetWidgetIndex, widgetIndex, scrollIndex) ==
    LET widget == WidgetAt(w, widgetIndex)
    IN  IF widget.type = WWT_LAST \/ widgetIndex = targetWidgetIndex THEN scrollIndex
        ELSE ScrollIndexLoop(w, targetWidgetIndex, widgetIndex + 1,
                 IF widget.type = WWT_SCROLL THEN scrollIndex + 1 ELSE scrollIndex)

window_get_scroll_index(w, targetWidgetIndex) ==
    IF WidgetAt(w, targetWidgetIndex).type # WWT_SCROLL THEN -1
    ELSE ScrollIndexLoop(w, targetWidgetIndex, 0, 0)

(* The widget (its index) of scroll region scrollIndex, or NULL. *)
RECURSIVE ScrollWidgetLoop(_, _, _)
ScrollWidgetLoop(w, i, scrollIndex) ==
    LET widget == WidgetAt(w, i)
    IN  IF widget.type = WWT_LAST THEN NULL
        ELSE IF widget.type # WWT_SCROLL THEN ScrollWidgetLoop(w, i + 1, scrollIndex)
        ELSE IF scrollIndex = 0 THEN i
        ELSE ScrollWidgetLoop(w, i + 1, scrollIndex - 1)

window_get_scroll_widget(w, scrollIndex) == ScrollWidgetLoop(w, 0, scrollIndex)

RECURSIVE ScrollDataLoop(_, _, _, _)
ScrollDataLoop(w, widget_index, i, result) ==
    IF i >= widget_index THEN result
    ELSE ScrollDataLoop(w, widget_index, i + 1,
             IF WidgetAt(w, i).type = WWT_SCROLL THEN result + 1 ELSE result)

window_get_scroll_data_index(w, widget_index) == ScrollDataLoop(w, widget_index, 0, 0)

(* A query leaves the state alone and hands back its result. *)
Answer(op, args, ret) ==
    /\ last' = [op |-> op, args |-> args, ret |-> ret, pre |-> Live(Machine),
                prelimit |-> window_limit, log |-> <<>>]
    /\ UNCHANGED <<g_window_list, gWindowNextSlot, window_limit, crashed, textVars,
                   engineVars>>

PointArgs(w, x, y) == [handle |-> w, x |-> x, y |-> y]
IndexArgs(w, i) == [handle |-> w, value |-> i]

Coords == 0 .. MaxCoord

(* One open window whose widget table is any table of the bound. *)
InitWidget ==
    /\ \E ox \in {0, 1}, oy \in {0, 1}, table \in WidgetTables :
          g_window_list = [i \in Slots |->
              IF i = 0 THEN Pane(WC_RIDE, 0, {}, ox, oy, 4, 5, table)
              ELSE Pane("", 0, {}, 0, 0, 0, 0, <<Terminator>>)]
    /\ gWindowNextSlot = 1
    /\ window_limit = WINDOW_LIMIT_MAX
    /\ crashed = FALSE
    /\ last = Idle
    /\ gUsingWidgetTextBox = FALSE
    /\ gCurrentTextBox = NoTextBox
    /\ EngineIdle

FindWidgetFromPoint ==
    /\ Ready
    /\ \E w \in 0 .. gWindowNextSlot - 1, x \in Coords, y \in Coords :
          Answer("find_widget", PointArgs(w, x, y),
                 window_find_widget_from_point(g_window_list[w], x, y))

GetScrollIndex ==
    /\ Ready
    /\ \E w \in 0 .. gWindowNextSlot - 1 :
          \E i \in 0 .. Len(g_window_list[w].widgets) - 1 :
             LET win == g_window_list[w]
                 index == window_get_scroll_index(win, i)
             IN  Answer("scroll_index", IndexArgs(w, i),
                        [index |-> index,
                         widget |-> IF index = -1 THEN NULL
                                    ELSE window_get_scroll_widget(win, index),
                         data |-> window_get_scroll_data_index(win, i)])

GetScrollWidget ==
    /\ Ready
    /\ \E w \in 0 .. gWindowNextSlot - 1, scrollIndex \in 0 .. MaxWidgets :
          LET win == g_window_list[w]
              widget == window_get_scroll_widget(win, scrollIndex)
          IN  Answer("scroll_widget", IndexArgs(w, scrollIndex),
                     [widget |-> widget,
                      index |-> IF widget = NULL THEN -1
                                ELSE window_get_scroll_index(win,
                                         window_get_widget_index(win, widget))])

NextWidget == FindWidgetFromPoint \/ GetScrollIndex \/ GetScrollWidget \/ Return

SpecWidget == InitWidget /\ [][NextWidget]_vars

Asked == g_window_list[last.args.handle]
WidgetCount(w) == Len(w.widgets) - 1
MaxOf(S) == CHOOSE i \in S : \A j \in S : j <= i

(* The widgets of the asked window that are not empty and whose bounds, *)
(* all four edges included, hold the asked point.                       *)
HitWidgets ==
    {i \in 0 .. WidgetCount(Asked) - 1 :
        /\ Asked.widgets[i + 1].type # WWT_EMPTY
        /\ last.args.x - Asked.x \in
              Asked.widgets[i + 1].left .. Asked.widgets[i + 1].right
        /\ last.args.y - Asked.y \in
              Asked.widgets[i + 1].top .. Asked.widgets[i + 1].bottom}

(* C13: widgetAtPoint returns the last non-empty widget holding the    *)
(* point, that index plus one when the widget is a dropdown, and -1    *)
(* exactly when no non-empty widget holds the point.                   *)
C13_WidgetAtPoint ==
    last.op = "find_widget" =>
        IF HitWidgets = {} THEN last.ret = -1
        ELSE LET top == MaxOf(HitWidgets)
             IN  /\ last.ret # -1
                 /\ last.ret = IF Asked.widgets[top + 1].type = WWT_DROPDOWN
                               THEN top + 1 ELSE top

(* Two widgets hold the point and the later one is a dropdown. *)
C13_Witness ==
    /\ last.op = "find_widget"
    /\ Cardinality(HitWidgets) = 2
    /\ Asked.widgets[MaxOf(HitWidgets) + 1].type = WWT_DROPDOWN
    /\ Asked.x = 1
    /\ last.ret = MaxOf(HitWidgets) + 1

ScrollWidgets(w) == {i \in 0 .. WidgetCount(w) - 1 : w.widgets[i + 1].type = WWT_SCROLL}

(* C14: scroll widgets and scroll regions correspond one to one in     *)
(* table order: scrollWidget(scrollIndex(i)) = i and scrollDataIndex(i) *)
(* = scrollIndex(i) for a scroll widget i, scrollIndex of the widget   *)
(* of region s is s, scrollIndex of another widget is -1 and the       *)
(* widget of a region at or above the number of scroll widgets is null.*)
C14_ScrollBijection ==
    /\ last.op = "scroll_index" =>
          IF last.args.value \in ScrollWidgets(Asked)
          THEN /\ last.ret.index =
                     Cardinality({j \in ScrollWidgets(Asked) : j < last.args.value})
               /\ last.ret.widget = last.args.value
               /\ last.ret.data = last.ret.index
          ELSE last.ret.index = -1
    /\ last.op = "scroll_widget" =>
          IF last.args.value < Cardinality(ScrollWidgets(Asked))
          THEN /\ last.ret.widget \in ScrollWidgets(Asked)
               /\ last.ret.index = last.args.value
          ELSE last.ret.widget = NULL

(* The second widget is a scroll widget and the first is not. *)
C14_Witness ==
    /\ last.op = "scroll_index"
    /\ last.args.value = 1
    /\ ScrollWidgets(Asked) = {1}
    /\ Asked.widgets[1].type = WWT_BUTTON
    /\ last.ret = [index |-> 0, widget |-> 1, data |-> 0]

(* ------------------------------------------------------------------ *)
(* window_find_from_point over lists of overlapping windows.           *)
(* ------------------------------------------------------------------ *)
InsideWindow(w, x, y) ==
    ~(x < w.x \/ x >= w.x + w.width \/ y < w.y \/ y >= w.y + w.height)

(* The scan that takes a window without background for hit wherever *)
(* its bounds hold the point.                                        *)
RECURSIVE FromPointLoop_bounds_only(_, _, _, _)
FromPointLoop_bounds_only(st, w, x, y) ==
    IF w < 0 THEN NULL
    ELSE IF ~InsideWindow(st.list[w], x, y)
         THEN FromPointLoop_bounds_only(st, w - 1, x, y)
         ELSE w

RECURSIVE FromPointLoop(_, _, _, _)
FromPointLoop(st, w, x, y) ==
    IF w < 0 THEN NULL
    ELSE LET win == st.list[w]
         IN  IF ~InsideWindow(win, x, y) THEN FromPointLoop(st, w - 1, x, y)
             ELSE IF /\ F_NO_BACKGROUND \in win.flags
                     /\ window_find_widget_from_point(win, x, y) = -1
                  THEN FromPointLoop(st, w - 1, x, y)
                  ELSE w

window_find_from_point(st, x, y) == FromPointLoop(st, st.n - 1, x, y)

(* The windows of the scenes: full and sparse ones, overlapping. *)
PaneTemplates ==
    { Pane(WC_MAIN_WINDOW, 0, {F_STICK_TO_BACK}, 0, 0, 5, 5, <<Terminator>>),
      Pane(WC_RIDE, 0, {}, 1, 1, 3, 3,
           <<Widget(WWT_BUTTON, 0, 0, 1, 1), Terminator>>),
      Pane(WC_RIDE, 1, {F_NO_BACKGROUND}, 0, 0, 4, 4,
           <<Widget(WWT_BUTTON, 1, 1, 2, 3), Terminator>>),
      Pane(WC_PEEP, 0, {F_NO_BACKGROUND}, 2, 0, 3, 5,
           <<Widget(WWT_EMPTY, 0, 0, 1, 1), Terminator>>),
      Pane(WC_PEEP, 1, {F_TRANSPARENT}, 2, 2, 2, 2, <<Terminator>>),
      Pane(WC_TOP_TOOLBAR, 0, {F_STICK_TO_FRONT, F_NO_BACKGROUND}, 0, 0, 5, 1,
           <<Widget(WWT_BUTTON, 0, 0, 1, 1), Terminator>>) }

PaneBlank == Pane("", 0, {}, 0, 0, 0, 0, <<Terminator>>)

Rank(w) ==
    IF F_STICK_TO_BACK \in w.flags THEN 0
    ELSE IF F_STICK_TO_FRONT \in w.flags THEN 2 ELSE 1

(* Lists the window list can hold: distinct windows, stick-to-back     *)
(* ones first and stick-to-front ones last.                            *)
Scenes(T) ==
    {q \in SeqsUpTo(T, MaxOpen) :
        /\ \A i, j \in 1 .. Len(q) : i < j => Key(q[i]) # Key(q[j])
        /\ \A i, j \in 1 .. Len(q) : i < j => Rank(q[i]) <= Rank(q[j])}

ListOf(q) == [i \in Slots |-> IF i < Len(q) THEN q[i + 1] ELSE PaneBlank]

InitHit ==
    /\ \E q \in Scenes(PaneTemplates) :
          /\ g_window_list = ListOf(q)
          /\ gWindowNextSlot = Len(q)
    /\ window_limit = WINDOW_LIMIT_MAX
    /\ crashed = FALSE
    /\ last = Idle
    /\ gUsingWidgetTextBox = FALSE
    /\ gCurrentTextBox = NoTextBox
    /\ EngineIdle

FindFromPoint ==
    /\ Ready
    /\ \E x \in Coords, y \in Coords :
          Answer("find_from_point", PointArgs(NULL, x, y),
                 window_find_from_point(Machine, x, y))

NextHit == FindFromPoint \/ Return

SpecHit == InitHit /\ [][NextHit]_vars

InBounds(i) ==
    /\ last.args.x \in g_window_list[i].x ..
                       (g_window_list[i].x + g_window_list[i].width - 1)
    /\ last.args.y \in g_window_list[i].y ..
                       (g_window_list[i].y + g_window_list[i].height - 1)

HasWidgetUnder(i) ==
    \E k \in 1 .. Len(g_window_list[i].widgets) - 1 :
        LET widget == g_window_list[i].widgets[k]
        IN  /\ widget.type # WWT_EMPTY
            /\ last.args.x - g_window_list[i].x \in widget.left .. widget.right
            /\ last.args.y - g_window_list[i].y \in widget.top .. widget.bottom

Qualifies(i) ==
    /\ InBounds(i)
    /\ F_NO_BACKGROUND \in g_window_list[i].flags => HasWidgetUnder(i)

(* C12: windowAtPoint returns the front-most window whose bounds hold  *)
(* the point and which, when it has no background, has a non-empty     *)
(* widget under the point; null exactly when no window qualifies.      *)
C12_WindowAtPoint ==
    last.op = "find_from_point" =>
        LET hit == {i \in 0 .. gWindowNextSlot - 1 : Qualifies(i)}
        IN  IF hit = {} THEN last.ret = NULL
            ELSE last.ret # NULL /\ last.ret = MaxOf(hit)

(* The hit fell through a window without background to one behind it. *)
C12_Witness ==
    /\ last.op = "find_from_point"
    /\ last.ret # NULL
    /\ \E j \in (last.ret + 1) .. (gWindowNextSlot - 1) :
          InBounds(j) /\ ~Qualifies(j)

(* ------------------------------------------------------------------ *)
(* The visibility cache (window_is_visible, window_reset_visibilities) *)
(* and the redraw of a dirty rectangle (window_draw_all, window_draw,  *)
(* window_draw_split, window_draw_single).                             *)
(* ------------------------------------------------------------------ *)
VC_UNKNOWN == "VC_UNKNOWN"
VC_VISIBLE == "VC_VISIBLE"
VC_COVERED == "VC_COVERED"

(* A window record with its visibility cache, and a viewport with its *)
(* own.                                                               *)
Cached(p) == p @@ [visibility |-> VC_UNKNOWN]
WithViewport(p) ==
    [p EXCEPT !.viewport = [present |-> TRUE, x |-> 0, visibility |-> VC_UNKNOWN]]

(* The test that takes any overlap for full cover. *)
Covers_overlap(other, w) ==
    /\ other.x < w.x + w.width
    /\ other.y < w.y + w.height
    /\ other.x + other.width > w.x
    /\ other.y + other.height > w.y

Covers(other, w) ==
    /\ other.x <= w.x
    /\ other.y <= w.y
    /\ other.x + other.width >= w.x + w.width
    /\ other.y + other.height >= w.y + w.height

Verdict(st, ret) == [st |-> st, ret |-> ret]

SetVisibility(st, w, v) ==
    IF st.list[w].viewport.present
    THEN [st EXCEPT !.list[w].visibility = v, !.list[w].viewport.visibility = v]
    ELSE [st EXCEPT !.list[w].visibility = v]

(* window_is_visible that scans the windows above whatever the cache says. *)
window_is_visible_uncached(st, w) ==
    IF w = NULL THEN Verdict(st, FALSE)
    ELSE LET win == st.list[w]
             scanned == Logged(st, [e |-> "scan", idx |-> w])
         IN  IF ~win.viewport.present \/ win.classification = WC_MAIN_WINDOW
             THEN Verdict([st EXCEPT !.list[w].visibility = VC_VISIBLE], TRUE)
             ELSE IF \E o \in (w + 1) .. (st.n - 1) : Covers(st.list[o], win)
                  THEN Verdict(SetVisibility(scanned, w, VC_COVERED), FALSE)
                  ELSE Verdict(SetVisibility(scanned, w, VC_VISIBLE), TRUE)

window_is_visible(st, w) ==
    IF w = NULL THEN Verdict(st, FALSE)
    ELSE LET win == st.list[w]
             scanned == Logged(st, [e |-> "scan", idx |-> w])
         IN  IF win.visibility = VC_VISIBLE THEN Verdict(st, TRUE)
             ELSE IF win.visibility = VC_COVERED THEN Verdict(st, FALSE)
             ELSE IF ~win.viewport.present \/ win.classification = WC_MAIN_WINDOW
             THEN Verdict([st EXCEPT !.list[w].visibility = VC_VISIBLE], TRUE)
             ELSE IF \E o \in (w + 1) .. (st.n - 1) : Covers(st.list[o], win)
                  THEN Verdict(SetVisibility(scanned, w, VC_COVERED), FALSE)
                  ELSE Verdict(SetVisibility(scanned, w, VC_VISIBLE), TRUE)

window_reset_visibilities(st) ==
    [st EXCEPT !.list = [i \in Slots |->
        IF i >= st.n THEN st.list[i]
        ELSE IF st.list[i].viewport.present
             THEN [st.list[i] EXCEPT !.visibility = VC_UNKNOWN,
                                     !.viewport.visibility = VC_UNKNOWN]
             ELSE [st.list[i] EXCEPT !.visibility = VC_UNKNOWN]]]

Rect(l, t, r, b) == [left |-> l, top |-> t, right |-> r, bottom |-> b]
Dpi(rect) ==
    [x |-> rect.left, y |-> rect.top, width |-> rect.right - rect.left,
     height |-> rect.bottom - rect.top]

(* window_draw_single: crop a copy of the render target to the region *)
(* and call the window's paint handler with it.                       *)
window_draw_single(st, dpi, w, rect) ==
    LET oLeft == rect.left - dpi.x
        d1 == IF oLeft > 0
              THEN [dpi EXCEPT !.x = @ + oLeft, !.width = @ - oLeft] ELSE dpi
        oRight == d1.x + d1.width - rect.right
        d2 == IF oRight > 0 THEN [d1 EXCEPT !.width = @ - oRight] ELSE d1
        oTop == rect.top - d2.y
        d3 == IF oTop > 0
              THEN [d2 EXCEPT !.y = @ + oTop, !.height = @ - oTop] ELSE d2
        oBottom == d3.y + d3.height - rect.bottom
        d4 == IF oBottom > 0 THEN [d3 EXCEPT !.height = @ - oBottom] ELSE d3
    IN  IF \/ oLeft > 0 /\ d1.width <= 0
           \/ oRight > 0 /\ d2.width <= 0
           \/ oTop > 0 /\ d3.height <= 0
           \/ oBottom > 0 /\ d4.height <= 0
        THEN st
        ELSE Logged(st, [e |-> "paint", idx |-> w,
                         rect |-> Rect(d4.x, d4.y, d4.x + d4.width, d4.y + d4.height)])

(* The paint step: the window itself and the transparent windows above. *)
RECURSIVE PaintLoop(_, _, _, _, _)
PaintLoop_opaque(st, dpi, w, v, rect) ==
    IF v >= st.n THEN st
    ELSE LET vis == window_is_visible(st, v)
         IN  PaintLoop(IF vis.ret THEN window_draw_single(vis.st, dpi, v, rect)
                       ELSE vis.st,
                       dpi, w, v + 1, rect)

PaintLoop(st, dpi, w, v, rect) ==
    IF v >= st.n THEN st
    ELSE IF w = v \/ F_TRANSPARENT \in st.list[v].flags
         THEN LET vis == window_is_visible(st, v)
              IN  PaintLoop(IF vis.ret THEN window_draw_single(vis.st, dpi, v, rect)
                            ELSE vis.st,
                            dpi, w, v + 1, rect)
         ELSE PaintLoop(st, dpi, w, v + 1, rect)

Overlaps(topwindow, rect) ==
    /\ ~(topwindow.x >= rect.right \/ topwindow.y >= rect.bottom)
    /\ ~(topwindow.x + topwindow.width <= rect.left
         \/ topwindow.y + topwindow.height <= rect.top)

(* The occluder search that looks at the next window up only. *)
FirstOccluder_next(st, w, rect) ==
    IF /\ w + 1 < st.n
       /\ Overlaps(st.list[w + 1], rect)
       /\ F_TRANSPARENT \notin st.list[w + 1].flags
    THEN w + 1
    ELSE NULL

(* The first window above w that overlaps the region and is not *)
(* transparent, or NULL.                                        *)
FirstOccluder(st, w, rect) ==
    LET tops == {i \in (w + 1) .. (st.n - 1) :
                    /\ Overlaps(st.list[i], rect)
                    /\ F_TRANSPARENT \notin st.list[i].flags}
    IN  IF tops = {} THEN NULL ELSE CHOOSE i \in tops : \A j \in tops : i <= j

(* The split that recurses on the first half only. *)
SplitAt_first_half(topwindow, rect) ==
    IF topwindow.x > rect.left
    THEN <<[rect EXCEPT !.right = topwindow.x]>>
    ELSE IF topwindow.x + topwindow.width < rect.right
    THEN <<[rect EXCEPT !.right = topwindow.x + topwindow.width]>>
    ELSE IF topwindow.y > rect.top
    THEN <<[rect EXCEPT !.bottom = topwindow.y]>>
    ELSE IF topwindow.y + topwindow.height < rect.bottom
    THEN <<[rect EXCEPT !.bottom = topwindow.y + topwindow.height]>>
    ELSE <<>>

(* The split whose second region reaches one column further right. *)
SplitAt_wider(topwindow, rect) ==
    IF topwindow.x > rect.left
    THEN <<[rect EXCEPT !.right = topwindow.x],
           [rect EXCEPT !.left = topwindow.x, !.right = @ + 1]>>
    ELSE IF topwindow.x + topwindow.width < rect.right
    THEN <<[rect EXCEPT !.right = topwindow.x + topwindow.width],
           [rect EXCEPT !.left = topwindow.x + topwindow.width]>>
    ELSE IF topwindow.y > rect.top
    THEN <<[rect EXCEPT !.bottom = topwindow.y], [rect EXCEPT !.top = topwindow.y]>>
    ELSE IF topwindow.y + topwindow.height < rect.bottom
    THEN <<[rect EXCEPT !.bottom = topwindow.y + topwindow.height],
           [rect EXCEPT !.top = topwindow.y + topwindow.height]>>
    ELSE <<>>

(* The two regions a draw is split into at the occluder's edges, or *)
(* none when the occluder hides the whole region.                   *)
SplitAt(topwindow, rect) ==
    IF topwindow.x > rect.left
    THEN <<[rect EXCEPT !.right = topwindow.x], [rect EXCEPT !.left = topwindow.x]>>
    ELSE IF topwindow.x + topwindow.width < rect.right
    THEN <<[rect EXCEPT !.right = topwindow.x + topwindow.width],
           [rect EXCEPT !.left = topwindow.x + topwindow.width]>>
    ELSE IF topwindow.y > rect.top
    THEN <<[rect EXCEPT !.bottom = topwindow.y], [rect EXCEPT !.top = topwindow.y]>>
    ELSE IF topwindow.y + topwindow.height < rect.bottom
    THEN <<[rect EXCEPT !.bottom = topwindow.y + topwindow.height],
           [rect EXCEPT !.top = topwindow.y + topwindow.height]>>
    ELSE <<>>

RECURSIVE window_draw(_, _, _, _)
RECURSIVE DrawEach(_, _, _, _)

(* window_draw on each region of a split, in turn. *)
DrawEach(st, dpi, w, rects) ==
    IF rects = <<>> THEN st
    ELSE DrawEach(window_draw(st, dpi, w, Head(rects)), dpi, w, Tail(rects))

window_draw_split(st, dpi, w, rect) ==
    LET topwindow == FirstOccluder(st, w, rect)
    IN  IF topwindow = NULL THEN Verdict(st, 0)
        ELSE Verdict(DrawEach(st, dpi, w, SplitAt(st.list[topwindow], rect)), 1)

window_draw(st, dpi, w, rect) ==
    LET vis == window_is_visible(st, w)
    IN  IF ~vis.ret THEN vis.st
        ELSE LET split == window_draw_split(vis.st, dpi, w, rect)
                 win == split.st.list[w]
                 clamped == Rect(Max(rect.left, win.x), Max(rect.top, win.y),
                                 Min(rect.right, win.x + win.width),
                                 Min(rect.bottom, win.y + win.height))
             IN  IF split.ret = 1 THEN split.st
                 ELSE IF clamped.left >= clamped.right \/ clamped.top >= clamped.bottom
                      THEN split.st
                      ELSE PaintLoop(split.st, dpi, w, w, clamped)

RECURSIVE DrawAllLoop(_, _, _)
DrawAllLoop(st, w, rect) ==
    IF w >= st.n THEN st
    ELSE LET win == st.list[w]
         IN  IF \/ F_TRANSPARENT \in win.flags
                \/ rect.right <= win.x \/ rect.bottom <= win.y
                \/ rect.left >= win.x + win.width \/ rect.top >= win.y + win.height
             THEN DrawAllLoop(st, w + 1, rect)
             ELSE DrawAllLoop(window_draw(st, Dpi(rect), w, rect), w + 1, rect)

window_draw_all(st, rect) == DrawAllLoop(st, 0, rect)

(* The windows of the redraw scenes.  With RIDE#0 = A and RIDE#1 = B, *)
(* B overlaps the lower right quarter of A.                            *)
DrawTemplates ==
    { Cached(WithViewport(Pane(WC_MAIN_WINDOW, 0, {F_STICK_TO_BACK}, 0, 0, 5, 5,
                               <<Terminator>>))),
      Cached(WithViewport(Pane(WC_RIDE, 0, {}, 0, 0, 4, 4, <<Terminator>>))),
      Cached(Pane(WC_RIDE, 1, {}, 2, 2, 4, 4, <<Terminator>>)),
      Cached(Pane(WC_PEEP, 0, {F_TRANSPARENT}, 1, 0, 3, 5, <<Terminator>>)),
      Cached(Pane(WC_PEEP, 1, {}, 0, 0, 4, 5, <<Terminator>>)),
      Cached(WithViewport(Pane(WC_OPTIONS, 0, {}, 1, 1, 2, 2, <<Terminator>>))),
      Cached(WithViewport(Pane(WC_DROPDOWN, 0, {F_TRANSPARENT}, 1, 1, 3, 3,
                               <<Terminator>>))) }

(* The dirty rectangles: the screen and parts of it whose edges fall on *)
(* and between the edges of the windows.                                *)
Edges == {0, 1, 3, MaxCoord + 1}
DirtyRects ==
    {Rect(l, t, r, b) : l \in Edges, t \in Edges, r \in Edges, b \in Edges}
Screen == Rect(0, 0, MaxCoord + 1, MaxCoord + 1)

CachedList(q) == [i \in Slots |-> IF i < Len(q) THEN q[i + 1] ELSE Cached(PaneBlank)]

InitDraw ==
    /\ \E q \in Scenes(DrawTemplates) :
          /\ g_window_list = CachedList(q)
          /\ gWindowNextSlot = Len(q)
    /\ window_limit = WINDOW_LIMIT_MAX
    /\ crashed = FALSE
    /\ last = Idle
    /\ gUsingWidgetTextBox = FALSE
    /\ gCurrentTextBox = NoTextBox
    /\ EngineIdle

RectArgs(w, rect) == [handle |-> w, rect |-> rect]

Draw ==
    /\ Ready
    /\ \E w \in 0 .. gWindowNextSlot - 1, rect \in DirtyRects :
          /\ rect.left < rect.right
          /\ rect.top < rect.bottom
          /\ Commit("draw", RectArgs(w, rect),
                    window_draw(Machine, Dpi(Screen), w, rect), NULL)
    /\ UNCHANGED window_limit

DrawAll ==
    /\ Ready
    /\ \E rect \in DirtyRects :
          /\ rect.left < rect.right
          /\ rect.top < rect.bottom
          /\ Commit("draw_all", RectArgs(NULL, rect),
                    window_draw_all(Machine, rect), NULL)
    /\ UNCHANGED window_limit

IsVisible ==
    /\ Ready
    /\ \E w \in {NULL} \cup (0 .. gWindowNextSlot - 1) :
          LET r == window_is_visible(Machine, w)
          IN  Commit("is_visible", IndexArgs(w, 0), r.st, r.ret)
    /\ UNCHANGED window_limit

ResetVisibilities ==
    /\ Ready
    /\ Commit("reset_visibilities", NoArgs, window_reset_visibilities(Machine), NULL)
    /\ UNCHANGED window_limit

NextDraw == Draw \/ DrawAll \/ IsVisible \/ ResetVisibilities \/ Return

SpecDraw == InitDraw /\ [][NextDraw]_vars

Cells(rect) ==
    {<<x, y>> : x \in rect.left .. (rect.right - 1),
                y \in rect.top .. (rect.bottom - 1)}
Bounds(w) == Rect(w.x, w.y, w.x + w.width, w.y + w.height)

(* The cells of the opaque windows above window i. *)
Hidden(i) ==
    UNION {Cells(Bounds(g_window_list[j])) :
              j \in {k \in (i + 1) .. (gWindowNextSlot - 1) :
                        F_TRANSPARENT \notin g_window_list[k].flags}}

PaintsOf(i) ==
    {k \in 1 .. Len(last.log) : last.log[k].e = "paint" /\ last.log[k].idx = i}

(* C15: every paint call draw(w, rect) issues for w gets a non-empty   *)
(* rectangle inside rect and inside w's bounds that meets the bounds   *)
(* of no opaque window above w.                                        *)
C15_PaintInsideVisible ==
    last.op = "draw" =>
        \A k \in PaintsOf(last.args.handle) :
            LET painted == Cells(last.log[k].rect)
            IN  /\ painted # {}
                /\ painted \subseteq Cells(last.args.rect)
                /\ painted \subseteq Cells(Bounds(g_window_list[last.args.handle]))
                /\ painted \cap Hidden(last.args.handle) = {}

(* A (0,0,4,4) below B (2,2,4,4): draw(A, screen) paints A at least twice. *)
C15_Witness ==
    /\ last.op = "draw"
    /\ last.args.rect = Screen
    /\ gWindowNextSlot = 2
    /\ Key(g_window_list[0]) = <<WC_RIDE, 0>>
    /\ Key(g_window_list[1]) = <<WC_RIDE, 1>>
    /\ Cardinality(PaintsOf(0)) >= 2

(* The window has a viewport, is not the main window and lies wholly *)
(* inside the bounds of a window above it.                           *)
IsCovered(i) ==
    /\ g_window_list[i].viewport.present
    /\ g_window_list[i].classification # WC_MAIN_WINDOW
    /\ \E j \in (i + 1) .. (gWindowNextSlot - 1) :
          /\ g_window_list[j].x <= g_window_list[i].x
          /\ g_window_list[j].y <= g_window_list[i].y
          /\ g_window_list[j].x + g_window_list[j].width
                >= g_window_list[i].x + g_window_list[i].width
          /\ g_window_list[j].y + g_window_list[j].height
                >= g_window_list[i].y + g_window_list[i].height

Tiled(i) ==
    /\ \A k, m \in PaintsOf(i) :
          k # m => Cells(last.log[k].rect) \cap Cells(last.log[m].rect) = {}
    /\ UNION {Cells(last.log[k].rect) : k \in PaintsOf(i)}
          = (Cells(last.args.rect) \cap Cells(Bounds(g_window_list[i]))) \ Hidden(i)

(* C16: the rectangles drawAll paints for an opaque, non-covered       *)
(* window are pairwise disjoint and their union is the dirty rectangle *)
(* within the window's bounds minus the opaque windows above it.       *)
C16_ExactTiling ==
    last.op = "draw_all" =>
        \A i \in 0 .. gWindowNextSlot - 1 :
            F_TRANSPARENT \notin g_window_list[i].flags /\ ~IsCovered(i) => Tiled(i)

(* A window partly hidden by two opaque windows was painted in pieces. *)
C16_Witness ==
    /\ last.op = "draw_all"
    /\ gWindowNextSlot = 3
    /\ \A i \in 0 .. 2 : F_TRANSPARENT \notin g_window_list[i].flags
    /\ ~IsCovered(0)
    /\ Cardinality(PaintsOf(0)) >= 3
    /\ Cardinality(PaintsOf(1)) >= 2

(* C17: isVisible on a window whose cache is known answers from the    *)
(* cache without scanning and leaves the cache as it is, a call always *)
(* leaves the cache equal to its answer, and resetVisibilities leaves  *)
(* every window's and every viewport's cache unknown.                  *)
C17_VisibilityCache ==
    /\ last.op = "is_visible" /\ last.args.handle # NULL =>
          LET before == last.pre[last.args.handle + 1]
              after == g_window_list[last.args.handle]
          IN  /\ after.visibility = IF last.ret THEN VC_VISIBLE ELSE VC_COVERED
              /\ before.visibility # VC_UNKNOWN =>
                    /\ last.ret = (before.visibility = VC_VISIBLE)
                    /\ last.log = <<>>
                    /\ after = before
    /\ last.op = "reset_visibilities" =>
          \A i \in 0 .. gWindowNextSlot - 1 :
              /\ g_window_list[i].visibility = VC_UNKNOWN
              /\ g_window_list[i].viewport.present =>
                    g_window_list[i].viewport.visibility = VC_UNKNOWN

(* A second call on a covered viewport window. *)
C17_Witness ==
    /\ last.op = "is_visible"
    /\ last.args.handle # NULL
    /\ last.pre[last.args.handle + 1].visibility = VC_COVERED
    /\ last.pre[last.args.handle + 1].viewport.present
    /\ last.ret = FALSE
    /\ last.log = <<>>

(* ------------------------------------------------------------------ *)
(* window_zoom_set.  MAX_ZOOM_LEVEL is the program's constant scaled   *)
(* down; MaxExtent bounds the view extents the scenes start with.      *)
(* ------------------------------------------------------------------ *)
MAX_ZOOM_LEVEL == 2
MaxExtent == 5

(* Integer division of C: the quotient is truncated towards zero. *)
CDiv(a, b) == IF a >= 0 THEN a \div b ELSE -((-a) \div b)

(* A viewport with its zoom and view extents. *)
ZoomViewport(zoom, view_width, view_height) ==
    [present |-> TRUE, x |-> 20, zoom |-> zoom, view_width |-> view_width,
     view_height |-> view_height]

(* A window that owns a viewport, with its saved view position. *)
ViewPane(c, k, f, x, y, w, h, vp) ==
    [Pane(c, k, f, x, y, w, h, <<Terminator>>) EXCEPT !.viewport = vp]
        @@ [saved_view_x |-> 0, saved_view_y |-> 0]

PlainPane(c, k, f, x, y, w, h) ==
    Pane(c, k, f, x, y, w, h, <<Terminator>>) @@ [saved_view_x |-> 0, saved_view_y |-> 0]

(* One zoom-in step that rounds the halved extents up. *)
ZoomInStep_round_up(win) ==
    [win EXCEPT !.viewport.zoom = @ - 1,
                !.saved_view_x = @ + CDiv(win.viewport.view_width, 4),
                !.saved_view_y = @ + CDiv(win.viewport.view_height, 4),
                !.viewport.view_width = CDiv(@ + 1, 2),
                !.viewport.view_height = CDiv(@ + 1, 2)]

ZoomInStep(win) ==
    [win EXCEPT !.viewport.zoom = @ - 1,
                !.saved_view_x = @ + CDiv(win.viewport.view_width, 4),
                !.saved_view_y = @ + CDiv(win.viewport.view_height, 4),
                !.viewport.view_width = CDiv(@, 2),
                !.viewport.view_height = CDiv(@, 2)]

ZoomOutStep(win) ==
    [win EXCEPT !.viewport.zoom = @ + 1,
                !.saved_view_x = @ - CDiv(win.viewport.view_width, 2),
                !.saved_view_y = @ - CDiv(win.viewport.view_height, 2),
                !.viewport.view_width = @ * 2,
                !.viewport.view_height = @ * 2]

RECURSIVE ZoomLoop(_, _)
ZoomLoop(win, zoomLevel) ==
    IF win.viewport.zoom > zoomLevel THEN ZoomLoop(ZoomInStep(win), zoomLevel)
    ELSE IF win.viewport.zoom < zoomLevel THEN ZoomLoop(ZoomOutStep(win), zoomLevel)
    ELSE win

(* window_viewport_centre_tile_around_cursor: the saved view position  *)
(* is set from the cursor and the map; `anchor` is what they give.     *)
CentreAroundCursor(win, anchor) ==
    [win EXCEPT !.saved_view_x = anchor[1], !.saved_view_y = anchor[2]]

(* window_zoom_set that goes on when the level is the current one. *)
window_zoom_set_always(st, w, level, anchored, anchor) ==
    LET zoomLevel == Clamp(0, level, MAX_ZOOM_LEVEL)
        zoomed == ZoomLoop(st.list[w], zoomLevel)
        centred == IF anchored THEN CentreAroundCursor(zoomed, anchor) ELSE zoomed
        front == window_bring_to_front([st EXCEPT !.list[w] = centred], w)
    IN  [st |-> Logged(front.st, Event("invalidate", w, front.st.list[w], front.st, 0)),
         ret |-> front.ret]

(* `anchored` is gConfigGeneral.zoom_to_cursor && atCursor.  The result *)
(* carries the slot the window is in afterwards.                        *)
window_zoom_set(st, w, level, anchored, anchor) ==
    LET zoomLevel == Clamp(0, level, MAX_ZOOM_LEVEL)
        zoomed == ZoomLoop(st.list[w], zoomLevel)
        centred == IF anchored THEN CentreAroundCursor(zoomed, anchor) ELSE zoomed
        front == window_bring_to_front([st EXCEPT !.list[w] = centred], w)
    IN  IF st.list[w].viewport.zoom = zoomLevel THEN [st |-> st, ret |-> w]
        ELSE [st |-> Logged(front.st,
                            Event("invalidate", w, front.st.list[w], front.st, 0)),
              ret |-> front.ret]

Extents == (-1) .. MaxExtent
Anchors == {<<7, 7>>}

ZoomScenes ==
    {<<ViewPane(WC_MAIN_WINDOW, 0, {F_STICK_TO_BACK}, 0, 0, 40, 40, vp)>> \o rest :
        vp \in {ZoomViewport(z, vw, vh) :
                   z \in 0 .. MAX_ZOOM_LEVEL, vw \in Extents, vh \in {2, 3}},
        rest \in {<<>>, <<PlainPane(WC_PEEP, 1, {}, 0, 0, 30, 30)>>}}
    \cup
    {<<ViewPane(WC_RIDE, 0, {}, 5, 5, 30, 30, vp),
       PlainPane(WC_PEEP, 1, {}, 0, 0, 30, 30)>> :
        vp \in {ZoomViewport(z, vw, vh) :
                   z \in 0 .. MAX_ZOOM_LEVEL, vw \in Extents, vh \in {2, 3}}}

ViewList(q) ==
    [i \in Slots |-> IF i < Len(q) THEN q[i + 1] ELSE PlainPane("", 0, {}, 0, 0, 0, 0)]

InitZoom ==
    /\ \E q \in ZoomScenes :
          /\ g_window_list = ViewList(q)
          /\ gWindowNextSlot = Len(q)
    /\ window_limit = WINDOW_LIMIT_MAX
    /\ crashed = FALSE
    /\ last = Idle
    /\ gUsingWidgetTextBox = FALSE
    /\ gCurrentTextBox = NoTextBox
    /\ EngineIdle

ZoomArgs(w, level, atCursor, zoom_to_cursor) ==
    [handle |-> w, value |-> level, atCursor |-> atCursor,
     zoom_to_cursor |-> zoom_to_cursor]

ZoomSet ==
    /\ Ready
    /\ \E w \in {i \in 0 .. gWindowNextSlot - 1 : g_window_list[i].viewport.present},
          level \in (-1) .. (MAX_ZOOM_LEVEL + 1),
          atCursor \in BOOLEAN, zoom_to_cursor \in BOOLEAN, anchor \in Anchors :
          LET r == window_zoom_set(Machine, w, level,
                                   zoom_to_cursor /\ atCursor, anchor)
          IN  Commit("zoom_set", ZoomArgs(w, level, atCursor, zoom_to_cursor),
                     r.st, r.ret)
    /\ UNCHANGED window_limit

NextZoom == ZoomSet \/ Return

SpecZoom == InitZoom /\ [][NextZoom]_vars

ZoomBefore == last.pre[last.args.handle + 1]
ZoomAfter == g_window_list[last.ret]
Anchored == last.args.atCursor /\ last.args.zoom_to_cursor

(* The window after zoomSet back to the level it had before the call. *)
ZoomedBack ==
    LET back == window_zoom_set(Machine, last.ret, ZoomBefore.viewport.zoom,
                                FALSE, <<0, 0>>)
    IN  back.st.list[back.ret]

PlainZoom ==
    /\ last.op = "zoom_set"
    /\ ~Anchored
    /\ last.args.value \in 0 .. MAX_ZOOM_LEVEL

TruncatedTo(e, k) == CDiv(e, 2 ^ k) * (2 ^ k)

C19_ZoomClamped ==
    last.op = "zoom_set" =>
        /\ Key(ZoomAfter) = Key(ZoomBefore)
        /\ ZoomAfter.viewport.zoom
              = IF last.args.value < 0 THEN 0
                ELSE IF last.args.value > MAX_ZOOM_LEVEL THEN MAX_ZOOM_LEVEL
                ELSE last.args.value
        /\ ZoomAfter.viewport.zoom = ZoomBefore.viewport.zoom =>
              /\ Now = last.pre
              /\ last.log = <<>>
              /\ last.ret = last.args.handle

(* A level above the maximum on a window at the maximum, below another *)
(* window, with cursor anchoring asked for.                            *)
C19_Witness ==
    /\ last.op = "zoom_set"
    /\ last.args.value = MAX_ZOOM_LEVEL + 1
    /\ ZoomBefore.viewport.zoom = MAX_ZOOM_LEVEL
    /\ Anchored
    /\ last.args.handle = 0
    /\ gWindowNextSlot = 2
    /\ ~IsSticky(ZoomBefore)

(* ------------------------------------------------------------------ *)
(* window_scroll_to_location.                                          *)
(* ------------------------------------------------------------------ *)
F_NO_SCROLLING == "NO_SCROLLING"
F_SCROLLING_TO_LOCATION == "SCROLLING_TO_LOCATION"

(* window_scroll_locations, in eighths: {0.5f, 0.5f} is <<4, 4>>. *)
window_scroll_locations ==
    << <<4, 4>>, <<6, 4>>, <<2, 4>>, <<4, 6>>, <<4, 2>>, <<6, 6>>, <<6, 2>>,
       <<2, 6>>, <<2, 2>>, <<1, 4>>, <<7, 4>>, <<4, 1>>, <<4, 7>>, <<7, 1>>,
       <<7, 7>>, <<1, 7>>, <<1, 1>> >>

CountOfLocations == Len(window_scroll_locations)

(* (sint16)(extent * window_scroll_locations[i][axis]) *)
Scaled(extent, i, axis) == CDiv(extent * window_scroll_locations[i + 1][axis], 8)

(* A viewport with its place on the screen, its view extents and its *)
(* flags (bit 0: the underground view).                              *)
ScreenViewport(x, y, width, height, view_width, view_height) ==
    [present |-> TRUE, x |-> x, y |-> y, width |-> width, height |-> height,
     view_width |-> view_width, view_height |-> view_height, underground |-> FALSE]

(* The test on the windows' own bounds, without the margin. *)
CoversPoint_no_margin(w2, x2, y2) ==
    /\ x2 >= w2.x /\ x2 <= w2.width + w2.x
    /\ y2 >= w2.y /\ y2 <= w2.height + w2.y

(* if (x2 >= x1 && x2 <= w2->width + x1 + 20) with x1 = w2->x - 10 *)
CoversPoint(w2, x2, y2) ==
    LET x1 == w2.x - 10
        y1 == w2.y - 10
    IN  /\ x2 >= x1 /\ x2 <= w2.width + x1 + 20
        /\ y2 >= y1 /\ y2 <= w2.height + y1 + 20

(* while (!found): try anchor i against every window after w.  Each  *)
(* read of window_scroll_locations is logged with its index.        *)
RECURSIVE AnchorSearch(_, _, _)
AnchorSearch(st, w, i) ==
    LET vp == st.list[w].viewport
        read == Logged(st, [e |-> "anchor", idx |-> i])
        x2 == vp.x + Scaled(vp.width, i, 1)
        y2 == vp.y + Scaled(vp.height, i, 2)
        covered == \E w2 \in (w + 1) .. (st.n - 1) : CoversPoint(st.list[w2], x2, y2)
    IN  IF ~covered THEN Verdict(read, i)
        ELSE IF i + 1 >= CountOfLocations THEN Verdict(read, 0)
        ELSE AnchorSearch(read, w, i + 1)

(* `below` is z < tile_element_height(x, y) - 16, `map` the screen      *)
(* projection of the location, `title` the title-demo screen flag.      *)
window_scroll_to_location(st, w, below, map, title) ==
    LET win == st.list[w]
        s1 == IF win.viewport.underground # below
              THEN Logged([st EXCEPT !.list[w].viewport.underground = below],
                          Event("invalidate", w, win, st, 0))
              ELSE st
        found == IF title THEN Verdict(s1, 0) ELSE AnchorSearch(s1, w, 0)
        i == found.ret
        used == Logged(found.st, [e |-> "anchor", idx |-> i])
    IN  IF ~win.viewport.present THEN Verdict(st, NULL)
        ELSE IF F_NO_SCROLLING \in win.flags THEN Verdict(found.st, i)
        ELSE Verdict(
               [used EXCEPT
                  !.list[w].saved_view_x = map[1] - Scaled(win.viewport.view_width, i, 1),
                  !.list[w].saved_view_y = map[2] - Scaled(win.viewport.view_height, i, 2),
                  !.list[w].flags = @ \cup {F_SCROLLING_TO_LOCATION}],
               i)

ScrollPane(c, k, f, x, y, w, h, vp) ==
    ViewPane(c, k, f, x, y, w, h, vp)

ScrollTemplates ==
    { ScrollPane(WC_MAIN_WINDOW, 0, {F_STICK_TO_BACK}, 0, 0, 80, 80,
                 ScreenViewport(0, 0, 80, 80, 160, 320)),
      ScrollPane(WC_RIDE, 0, {}, 0, 0, 80, 80,
                 ScreenViewport(0, 0, 80, 80, 80, 160)),
      ScrollPane(WC_OPTIONS, 0, {F_NO_SCROLLING}, 0, 0, 80, 80,
                 ScreenViewport(0, 0, 80, 80, 80, 160)),
      PlainPane(WC_PEEP, 0, {}, 30, 30, 20, 20),
      PlainPane(WC_PEEP, 1, {}, -10, -10, 100, 100),
      PlainPane(WC_RIDE, 1, {}, 50, 0, 40, 80),
      PlainPane(WC_DROPDOWN, 0, {F_STICK_TO_FRONT}, 10, 30, 5, 5) }

InitScroll ==
    /\ \E q \in Scenes(ScrollTemplates) :
          /\ g_window_list = ViewList(q)
          /\ gWindowNextSlot = Len(q)
    /\ window_limit = WINDOW_LIMIT_MAX
    /\ crashed = FALSE
    /\ last = Idle
    /\ gUsingWidgetTextBox = FALSE
    /\ gCurrentTextBox = NoTextBox
    /\ EngineIdle

ScrollArgs(w, below, map, title) ==
    [handle |-> w, below |-> below, map |-> map, title |-> title]

MapPoints == {<<0, 0>>, <<100, 300>>}

ScrollToLocation ==
    /\ Ready
    /\ \E w \in 0 .. gWindowNextSlot - 1, below \in BOOLEAN, map \in MapPoints,
          title \in BOOLEAN :
          LET r == window_scroll_to_location(Machine, w, below, map, title)
          IN  Commit("scroll_to_location", ScrollArgs(w, below, map, title),
                     r.st, r.ret)
    /\ UNCHANGED window_limit

NextScroll == ScrollToLocation \/ Return

SpecScroll == InitScroll /\ [][NextScroll]_vars

Scrolled == g_window_list[last.args.handle]

(* The screen point of anchor i of the scrolled window's viewport. *)
AnchorX(i) ==
    Scrolled.viewport.x
        + (Scrolled.viewport.width * window_scroll_locations[i + 1][1]) \div 8
AnchorY(i) ==
    Scrolled.viewport.y
        + (Scrolled.viewport.height * window_scroll_locations[i + 1][2]) \div 8

(* Anchor i lies within 10 px of a window after the scrolled one. *)
Obstructed(i) ==
    \E j \in (last.args.handle + 1) .. (gWindowNextSlot - 1) :
        /\ AnchorX(i) \in (g_window_list[j].x - 10) ..
                          (g_window_list[j].x + g_window_list[j].width + 10)
        /\ AnchorY(i) \in (g_window_list[j].y - 10) ..
                          (g_window_list[j].y + g_window_list[j].height + 10)

FreeAnchors == {i \in 0 .. 16 : ~Obstructed(i)}

Scrolls ==
    /\ last.op = "scroll_to_location"
    /\ ~last.args.title
    /\ Scrolled.viewport.present
    /\ F_NO_SCROLLING \notin Scrolled.flags

(* C20: outside title-demo mode scrollToLocation centres the view on   *)
(* the lowest anchor of the 17 that no window after w obstructs, on    *)
(* anchor 0 when all are obstructed, and reads the anchor list only at *)
(* indices below 17.                                                   *)
C20_LowestFreeAnchor ==
    Scrolls =>
        LET i == IF FreeAnchors = {} THEN 0
                 ELSE CHOOSE a \in FreeAnchors : \A b \in FreeAnchors : a <= b
        IN  /\ last.ret = i
            /\ Scrolled.saved_view_x
                  = last.args.map[1]
                    - (Scrolled.viewport.view_width
                         * window_scroll_locations[i + 1][1]) \div 8
            /\ Scrolled.saved_view_y
                  = last.args.map[2]
                    - (Scrolled.viewport.view_height
                         * window_scroll_locations[i + 1][2]) \div 8
            /\ \A ev \in LogEvents : ev.e = "anchor" => ev.idx \in 0 .. 16

(* The first nine anchors are obstructed and the tenth is used. *)
C20_Witness ==
    /\ Scrolls
    /\ FreeAnchors # {}
    /\ \A i \in 0 .. 8 : Obstructed(i)
    /\ last.ret = 9

(* Every anchor is obstructed and the centre is used. *)
C20_WitnessFallback ==
    /\ Scrolls
    /\ FreeAnchors = {}
    /\ last.ret = 0
    /\ Cardinality({k \in 1 .. Len(last.log) : last.log[k].e = "anchor"}) = 18

(* ------------------------------------------------------------------ *)
(* isVisible on a cache miss.                                          *)
(* ------------------------------------------------------------------ *)
CacheMiss ==
    /\ last.op = "is_visible"
    /\ last.args.handle # NULL
    /\ last.pre[last.args.handle + 1].visibility = VC_UNKNOWN

Seen == g_window_list[last.args.handle]

(* Some window above the asked one has bounds that hold its bounds. *)
FullyContained ==
    \E j \in (last.args.handle + 1) .. (gWindowNextSlot - 1) :
        /\ g_window_list[j].x <= Seen.x
        /\ g_window_list[j].y <= Seen.y
        /\ g_window_list[j].x + g_window_list[j].width >= Seen.x + Seen.width
        /\ g_window_list[j].y + g_window_list[j].height >= Seen.y + Seen.height

Scanned == \E ev \in LogEvents : ev.e = "scan"

(* A window drawn without frame or background. *)
Borderless(w) == F_NO_BACKGROUND \in w.flags

(* C27 as stated: on a cache miss the main window and borderless       *)
(* windows are visible without a scan, and any other window is covered *)
(* exactly when a window above it holds its bounds.                    *)
C27_BorderlessExempt ==
    CacheMiss =>
        IF Seen.classification = WC_MAIN_WINDOW \/ Borderless(Seen)
        THEN last.ret = TRUE /\ ~Scanned
        ELSE last.ret = ~FullyContained

(* C27: on a cache miss the main window and windows without a viewport *)
(* are visible without a scan; any other window is covered, and so is  *)
(* its viewport, exactly when a window above it holds its bounds, and  *)
(* is cached visible otherwise.                                        *)
C27_ViewportlessExempt ==
    CacheMiss =>
        IF Seen.classification = WC_MAIN_WINDOW \/ ~Seen.viewport.present
        THEN /\ last.ret = TRUE
             /\ ~Scanned
             /\ Seen.visibility = VC_VISIBLE
        ELSE /\ last.ret = ~FullyContained
             /\ Seen.visibility = IF FullyContained THEN VC_COVERED ELSE VC_VISIBLE
             /\ Seen.viewport.visibility = Seen.visibility

(* A viewport window under a window that holds its bounds. *)
C27_Witness ==
    /\ CacheMiss
    /\ Seen.viewport.present
    /\ Seen.classification # WC_MAIN_WINDOW
    /\ FullyContained
    /\ last.ret = FALSE
    /\ Seen.viewport.visibility = VC_COVERED

(* ------------------------------------------------------------------ *)
(* The order of the steps of a close.                                  *)
(* ------------------------------------------------------------------ *)
LogKey(ev) == <<ev.cls, ev.number>>

(* The entry of the close that a step at position p, depth d, is part  *)
(* of: the latest entry into window_close at that depth before p.      *)
EntryOf(p) ==
    LET S == {q \in 1 .. p - 1 :
                 last.log[q].e = "close" /\ last.log[q].depth = last.log[p].depth}
    IN  IF S = {} THEN 0 ELSE CHOOSE q \in S : \A r \in S : r <= q

HadViewport(key) ==
    \E k \in 1 .. Len(last.pre) :
        Key(last.pre[k]) = key /\ last.pre[k].viewport.present

(* The steps of the close that ends with the removal at position p. *)
StepsInOrder(p) ==
    LET ev == last.log[p]
        q == EntryOf(p)
        first == IF HadViewport(LogKey(ev)) THEN p - 2 ELSE p - 1
    IN  /\ q > 0
        /\ q + 1 < first
        /\ LogKey(last.log[q]) = LogKey(ev)
        /\ last.log[q + 1].e = "close_call"
        /\ last.log[q + 1].depth = ev.depth
        /\ last.log[q + 1].idx = last.log[q].idx
        /\ LogKey(last.log[q + 1]) = LogKey(ev)
        /\ ~Stale(last.log[q + 1])
        /\ \A r \in (q + 2) .. (first - 1) : last.log[r].depth > ev.depth
        /\ HadViewport(LogKey(ev)) =>
              /\ last.log[p - 2].e = "viewport"
              /\ last.log[p - 2].depth = ev.depth
              /\ last.log[p - 2].idx = ev.idx
              /\ LogKey(last.log[p - 2]) = LogKey(ev)
        /\ last.log[p - 1].e = "invalidate"
        /\ last.log[p - 1].depth = ev.depth
        /\ last.log[p - 1].idx = ev.idx
        /\ LogKey(last.log[p - 1]) = LogKey(ev)
        /\ ~Stale(last.log[p - 1])

(* C28: in every close of an open window the close handler is invoked   *)
(* exactly once, with the window still in the list; the record is then  *)
(* found again by classification and number, its viewport (if any) is   *)
(* released, its rectangle invalidated, and only then is it removed.    *)
C28_CloseOrder ==
    (last.op = "close" /\ last.args.handle # NULL) =>
        /\ Cardinality({k \in 1 .. Len(last.log) :
                           last.log[k].e = "close_call" /\ last.log[k].depth = 0}) = 1
        /\ last.log[2].e = "close_call"
        /\ last.log[2].idx = last.args.handle
        /\ LogKey(last.log[2]) = Key(PreRec)
        /\ ~Stale(last.log[2])
        /\ \A p \in 1 .. Len(last.log) : last.log[p].e = "remove" => StepsInOrder(p)
        /\ \A p \in 1 .. Len(last.log) :
              last.log[p].e \in {"viewport", "invalidate"} =>
                 \E r \in p + 1 .. Len(last.log) :
                    /\ last.log[r].e = "remove"
                    /\ r <= p + 2
                    /\ last.log[r].depth = last.log[p].depth
        /\ ~HandlerRemovedTarget =>
              /\ last.log[Len(last.log)].e = "remove"
              /\ last.log[Len(last.log)].depth = 0
              /\ LogKey(last.log[Len(last.log)]) = Key(PreRec)
              /\ HadViewport(Key(PreRec)) =>
                    \A j \in 0 .. gWindowNextSlot - 1 :
                       Key(g_window_list[j]) # Key(PreRec)

(* The handler of the closed window closed a window below it, so the   *)
(* record was found again one slot down and removed there after its    *)
(* rectangle was invalidated.                                          *)
C28_Witness ==
    /\ last.op = "close"
    /\ last.args.handle # NULL
    /\ ~HandlerRemovedTarget
    /\ Len(last.log) > 4
    /\ last.log[Len(last.log)].e = "remove"
    /\ last.log[Len(last.log)].idx < last.args.handle

(* The viewport of the closed window was released before the removal. *)
C28_WitnessViewport ==
    /\ last.op = "close"
    /\ last.args.handle # NULL
    /\ ~HandlerRemovedTarget
    /\ \E p \in 1 .. Len(last.log) : last.log[p].e = "viewport" /\ last.log[p].depth = 0

(* ------------------------------------------------------------------ *)
(* bringToFront and the left edge of the screen.                       *)
(* ------------------------------------------------------------------ *)
NudgeXs == {-60, -11, -10, 10, 20}
NudgeWidth == 30

NudgeTemplates ==
    { Win(WC_MAIN_WINDOW, 0, {F_STICK_TO_BACK}, 0, 640, Viewport(0), HNone),
      Win(WC_TOP_TOOLBAR, 0, {F_STICK_TO_FRONT}, 0, 640, NoViewport, HNone),
      Win(WC_DROPDOWN, 0, {F_STICK_TO_FRONT}, -60, NudgeWidth, NoViewport, HNone) }
    \cup {Win(WC_RIDE, 0, {}, x, NudgeWidth, Viewport(x + 3), HNone) : x \in NudgeXs}
    \cup {Win(WC_PEEP, 1, {}, x, NudgeWidth, NoViewport, HNone) : x \in NudgeXs}

InitNudge ==
    /\ \E q \in Scenes(NudgeTemplates) :
          /\ g_window_list = [i \in Slots |-> IF i < Len(q) THEN q[i + 1] ELSE Blank]
          /\ gWindowNextSlot = Len(q)
    /\ window_limit = WINDOW_LIMIT_MAX
    /\ crashed = FALSE
    /\ last = Idle
    /\ gUsingWidgetTextBox = FALSE
    /\ gCurrentTextBox = NoTextBox
    /\ EngineIdle

NextNudge == BringToFront \/ Return

SpecNudge == InitNudge /\ [][NextNudge]_vars

Fronted == last.op = "bring_to_front" /\ ~IsSticky(PreRec)
Moved == g_window_list[last.ret]

(* C29 as stated, the left edge read as the window's x: a window       *)
(* without a stick flag whose x is below 20 is moved to 20 or beyond.  *)
C29_NudgeByLeftEdge ==
    (Fronted /\ PreRec.x < 20) => Moved.x >= 20

(* C29: bringToFront of a window without a stick flag whose right edge *)
(* (x + width) is below 20 sets its x to 20 and adds the same amount   *)
(* to its viewport's x; any other window keeps its x and viewport x.   *)
C29_NudgeByRightEdge ==
    Fronted =>
        /\ Key(Moved) = Key(PreRec)
        /\ IF PreRec.x + PreRec.width < 20
           THEN /\ Moved.x = 20
                /\ Moved.viewport.present = PreRec.viewport.present
                /\ PreRec.viewport.present =>
                      Moved.viewport.x - PreRec.viewport.x = Moved.x - PreRec.x
           ELSE /\ Moved.x = PreRec.x
                /\ Moved.viewport = PreRec.viewport

(* A window with a viewport, wholly left of x = 20, was moved up the   *)
(* list and to the right.                                              *)
C29_Witness ==
    /\ Fronted
    /\ PreRec.viewport.present
    /\ PreRec.x + PreRec.width = 19
    /\ last.ret # last.args.handle
    /\ Moved.x = 20
    /\ Moved.viewport.x = PreRec.viewport.x + 31

(* ------------------------------------------------------------------ *)
(* The order of the paint handlers.                                    *)
(* ------------------------------------------------------------------ *)
IsPaint(ev) == ev.e = "paint"
PaintLog == SelectSeq(last.log, IsPaint)

(* The transparent windows above w that isVisible reports visible, in  *)
(* list order.                                                         *)
RECURSIVE Overlay(_)
Overlay(v) ==
    IF v >= gWindowNextSlot THEN <<>>
    ELSE IF /\ F_TRANSPARENT \in g_window_list[v].flags
            /\ g_window_list[v].visibility = VC_VISIBLE
         THEN <<v>> \o Overlay(v + 1)
         ELSE Overlay(v + 1)

IsDrawTarget(w) ==
    IF last.op = "draw" THEN w = last.args.handle
    ELSE F_TRANSPARENT \notin g_window_list[w].flags

(* From position k on, the paint log is a run of groups: a target and  *)
(* then its overlay, all with the rectangle of the target's paint.     *)
RECURSIVE PaintGroups(_)
PaintGroups(k) ==
    IF k > Len(PaintLog) THEN TRUE
    ELSE LET w == PaintLog[k].idx
             over == Overlay(w + 1)
         IN  /\ IsDrawTarget(w)
             /\ k + Len(over) <= Len(PaintLog)
             /\ \A m \in 1 .. Len(over) :
                   /\ PaintLog[k + m].idx = over[m]
                   /\ PaintLog[k + m].rect = PaintLog[k].rect
             /\ PaintGroups(k + Len(over) + 1)

(* C30: each rectangle draw(w, rect) paints is painted back to front,  *)
(* first by w and then by every transparent, visible window above w,   *)
(* each with the same clipped rectangle; no other window above w is    *)
(* painted, and drawAll starts no draw on a transparent window.        *)
C30_PaintOrder ==
    last.op \in {"draw", "draw_all"} =>
        /\ PaintGroups(1)
        /\ \A k \in 1 .. Len(PaintLog) :
              \/ IsDrawTarget(PaintLog[k].idx)
              \/ F_TRANSPARENT \in g_window_list[PaintLog[k].idx].flags

(* A draw on a window under an opaque window and a transparent one was *)
(* split, and each piece was painted by the window and by the          *)
(* transparent window above it.                                        *)
C30_Witness ==
    /\ last.op = "draw"
    /\ last.args.handle = 0
    /\ gWindowNextSlot = 3
    /\ F_TRANSPARENT \notin g_window_list[0].flags
    /\ F_TRANSPARENT \notin g_window_list[1].flags
    /\ Len(Overlay(1)) = 1
    /\ Len(PaintLog) >= 4

(* drawAll passed over a transparent window as target and painted it   *)
(* over a window below it.                                             *)
C30_WitnessDrawAll ==
    /\ last.op = "draw_all"
    /\ \E k \in 2 .. Len(PaintLog) :
          /\ F_TRANSPARENT \in g_window_list[PaintLog[k].idx].flags
          /\ PaintLog[k].idx > PaintLog[k - 1].idx

(* A transparent window above the target was covered and not painted,  *)
(* while another transparent window above it was.                      *)
C30_WitnessCovered ==
    /\ last.op = "draw"
    /\ Len(PaintLog) >= 2
    /\ \E v \in (last.args.handle + 1) .. (gWindowNextSlot - 1) :
          /\ F_TRANSPARENT \in g_window_list[v].flags
          /\ g_window_list[v].visibility = VC_COVERED
    /\ Len(Overlay(last.args.handle + 1)) = 1

(* ------------------------------------------------------------------ *)
(* The mouse wheel over a widget that is not a scroll view.            *)
(* ------------------------------------------------------------------ *)
MaxWheelWidgets == 3

WWT_IMGBTN == "WWT_IMGBTN"
WWT_STEPPER == "WWT_STEPPER"
WWT_TRNBTN == "WWT_TRNBTN"
SPR_LAND_TOOL_DECREASE == "SPR_LAND_TOOL_DECREASE"
SPR_LAND_TOOL_INCREASE == "SPR_LAND_TOOL_INCREASE"
STR_NUMERIC_UP == "STR_NUMERIC_UP"
STR_NUMERIC_DOWN == "STR_NUMERIC_DOWN"
NoImage == "none"

(* The type and image of the widgets of the wheel scenes. *)
WheelKinds ==
    { <<WWT_IMGBTN, NoImage>>, <<WWT_STEPPER, NoImage>>, <<WWT_DROPDOWN, NoImage>>,
      <<WWT_TRNBTN, SPR_LAND_TOOL_DECREASE>>, <<WWT_TRNBTN, SPR_LAND_TOOL_INCREASE>>,
      <<WWT_BUTTON, STR_NUMERIC_UP>>, <<WWT_BUTTON, STR_NUMERIC_DOWN>> }

(* Widget i of a wheel scene fills column i of its window. *)
WheelWidget(kind, i) ==
    [type |-> kind[1], left |-> i, top |-> 0, right |-> i, bottom |-> MaxCoord,
     image |-> kind[2]]

WheelTerminator ==
    [type |-> WWT_LAST, left |-> 0, top |-> 0, right |-> 0, bottom |-> 0,
     image |-> NoImage]

WheelTable(kinds) ==
    Append([i \in 1 .. Len(kinds) |-> WheelWidget(kinds[i], i - 1)], WheelTerminator)

(* What a read beyond the end of the widget array can find there. *)
Junk == {WheelWidget(k, 0) : k \in WheelKinds} \cup {WheelTerminator}

(* w->widgets[i]: the widget of the table, or whatever lies behind it. *)
ReadWidget(table, i, junk) == IF i + 1 <= Len(table) THEN table[i + 1] ELSE junk

Search(found, widgetIndex, widgetType, reads) ==
    [found |-> found, widgetIndex |-> widgetIndex, widgetType |-> widgetType,
     reads |-> reads]

(* The loop that steps down from a + or - button to its preview or     *)
(* stepper widget.                                                     *)
RECURSIVE StepperSearch(_, _, _, _, _, _)
StepperSearch(table, widgetIndex, widgetType, attempts, reads, junk) ==
    IF widgetType # WWT_IMGBTN /\ widgetType # WWT_STEPPER /\ widgetIndex > 0
    THEN IF widgetType \in {WWT_TRNBTN, WWT_BUTTON}
         THEN LET r1 == IF attempts > 0 THEN reads \cup {widgetIndex + 1} ELSE reads
                  previousType == ReadWidget(table, widgetIndex + 1, junk).type
              IN  IF attempts > 0 /\ previousType # widgetType
                  THEN Search(FALSE, widgetIndex, widgetType, r1)
                  ELSE IF attempts + 1 > 2
                  THEN Search(FALSE, widgetIndex, widgetType, r1)
                  ELSE StepperSearch(table, widgetIndex - 1,
                                     ReadWidget(table, widgetIndex - 1, junk).type,
                                     attempts + 1, r1 \cup {widgetIndex - 1}, junk)
         ELSE Search(FALSE, widgetIndex, widgetType, reads)
    ELSE Search(TRUE, widgetIndex, widgetType, reads)

Wheeled(handled, reads, pressed) ==
    [handled |-> handled, reads |-> reads, pressed |-> pressed]

(* window_other_wheel_input.  `disabled` is the answer of              *)
(* widget_is_disabled for the button.                                  *)
window_other_wheel_input(w, widgetIndex, wheel, disabled, junk) ==
    LET table == w.widgets
        s == StepperSearch(table, widgetIndex,
                           ReadWidget(table, widgetIndex, junk).type, 0,
                           {widgetIndex}, junk)
        i == s.widgetIndex
        buttonWidgetIndex ==
            IF s.widgetType = WWT_IMGBTN
            THEN (IF wheel < 0 THEN i + 2 ELSE i + 1)
            ELSE (IF wheel < 0 THEN i + 1 ELSE i + 2)
        expectedType == IF s.widgetType = WWT_IMGBTN THEN WWT_TRNBTN ELSE WWT_BUTTON
        expectedContent ==
            IF s.widgetType = WWT_IMGBTN
            THEN <<SPR_LAND_TOOL_DECREASE, SPR_LAND_TOOL_INCREASE>>
            ELSE <<STR_NUMERIC_UP, STR_NUMERIC_DOWN>>
        button1 == ReadWidget(table, i + 1, junk)
        button2 == ReadWidget(table, i + 2, junk)
        r2 == s.reads \cup {i + 1, i + 2}
    IN  IF ~s.found \/ s.widgetType \notin {WWT_IMGBTN, WWT_STEPPER}
        THEN Wheeled(FALSE, s.reads, NULL)
        ELSE IF disabled THEN Wheeled(FALSE, s.reads, NULL)
        ELSE IF \/ button1.type # expectedType \/ button2.type # expectedType
                \/ button1.image # expectedContent[1]
                \/ button2.image # expectedContent[2]
        THEN Wheeled(FALSE, r2, NULL)
        ELSE Wheeled(TRUE, r2, buttonWidgetIndex)

(* One open window whose widgets are any wheel table of the bound. *)
InitWheel ==
    /\ \E kinds \in SeqsUpTo(WheelKinds, MaxWheelWidgets) :
          g_window_list = [i \in Slots |->
              IF i = 0 THEN Pane(WC_RIDE, 0, {}, 0, 0, MaxCoord + 1, MaxCoord + 1,
                                 WheelTable(kinds))
              ELSE Pane("", 0, {}, 0, 0, 0, 0, <<Terminator>>)]
    /\ gWindowNextSlot = 1
    /\ window_limit = WINDOW_LIMIT_MAX
    /\ crashed = FALSE
    /\ last = Idle
    /\ gUsingWidgetTextBox = FALSE
    /\ gCurrentTextBox = NoTextBox
    /\ EngineIdle

WheelArgs(w, x, y, widgetIndex, wheel) ==
    [handle |-> w, x |-> x, y |-> y, value |-> widgetIndex, wheel |-> wheel]

(* The wheel turned with the cursor over a widget of the window: the   *)
(* part of window_all_wheel_input for a widget that is no scroll view. *)
OtherWheelInput ==
    /\ Ready
    /\ \E w \in 0 .. gWindowNextSlot - 1, x \in Coords, wheel \in {-1, 1},
          disabled \in BOOLEAN, junk \in Junk :
          LET win == g_window_list[w]
              widgetIndex == window_find_widget_from_point(win, x, 0)
          IN  /\ widgetIndex # -1
              /\ ReadWidget(win.widgets, widgetIndex, junk).type # WWT_SCROLL
              /\ Answer("wheel_input", WheelArgs(w, x, 0, widgetIndex, wheel),
                        window_other_wheel_input(win, widgetIndex, wheel, disabled,
                                                 junk))

NextWheel == FindWidgetFromPoint \/ OtherWheelInput \/ Return

SpecWheel == InitWheel /\ [][NextWheel]_vars

(* C26: widgetAtPoint returns -1 or an index strictly before the       *)
(* terminator of the widget table, and the wheel heuristic reads no    *)
(* widget at an index beyond the terminator.                           *)
C26_WithinTerminator ==
    /\ last.op = "find_widget" =>
          (last.ret = -1 \/ last.ret < WidgetCount(Asked))
    /\ last.op = "wheel_input" =>
          \A i \in last.ret.reads : i <= WidgetCount(Asked)

(* The same, for widgetAtPoint alone. *)
C26_HitBeforeTerminator ==
    last.op = "find_widget" => (last.ret = -1 \/ last.ret < WidgetCount(Asked))

(* The same, for the wheel heuristic alone. *)
C26_ReadsUpToTerminator ==
    last.op = "wheel_input" => \A i \in last.ret.reads : i <= WidgetCount(Asked)

(* The wheel pressed the + or - button of a stepper. *)
C26_WheelPressed ==
    /\ last.op = "wheel_input"
    /\ last.ret.handled
    /\ last.ret.pressed <= WidgetCount(Asked)
    /\ last.args.value > 0

(* ------------------------------------------------------------------ *)
(* The camera rotation.                                                *)
(* ------------------------------------------------------------------ *)
MaxDirection == 1
MaxTurns == 4

Directions == (-MaxDirection) .. MaxDirection

(* The remainder of C, which has the sign of its left operand. *)
And3_rem(v) == IF v >= 0 THEN v % 4 ELSE -((-v) % 4)

(* v & 3 on a two's complement integer: a negative v is the bitwise    *)
(* complement of -v - 1, so its low two bits are those of -v - 1       *)
(* inverted.                                                           *)
And3(v) == IF v >= 0 THEN v % 4 ELSE 3 - ((-v - 1) % 4)

get_current_rotation == gCurrentRotation

(* A viewport with the position of its view. *)
CameraViewport == [present |-> TRUE, x |-> 20, view_x |-> 0, view_y |-> 0]

RotateScenes ==
    { <<ViewPane(WC_MAIN_WINDOW, 0, {F_STICK_TO_BACK}, 0, 0, 40, 40, CameraViewport)>>,
      <<ViewPane(WC_MAIN_WINDOW, 0, {F_STICK_TO_BACK}, 0, 0, 40, 40, CameraViewport),
        PlainPane(WC_PEEP, 1, {}, 0, 0, 30, 30)>>,
      <<ViewPane(WC_MAIN_WINDOW, 0, {F_STICK_TO_BACK}, 0, 0, 40, 40, CameraViewport),
        ViewPane(WC_RIDE, 0, {}, 5, 5, 30, 30, CameraViewport),
        PlainPane(WC_PEEP, 1, {}, 0, 0, 30, 30)>> }

(* The view positions centre_2d_coordinates can give. *)
Centres == {<<3, 5>>}

(* for (w = RCT2_NEW_WINDOW - 1; w >= g_window_list; w--) *)
RECURSIVE call_event_viewport_rotate_on_all_windows(_, _)
call_event_viewport_rotate_on_all_windows(st, w) ==
    IF w < 0 THEN st
    ELSE call_event_viewport_rotate_on_all_windows(
             Logged(st, Event("viewport_rotate", w, st.list[w], st, 0)), w - 1)

window_rotate_camera(st, w, direction, centre) ==
    LET rec == st.list[w]
        rotation == And3(get_current_rotation + direction)
        s1 == [st EXCEPT !.list[w].saved_view_x = centre[1],
                         !.list[w].saved_view_y = centre[2],
                         !.list[w].viewport.view_x = centre[1],
                         !.list[w].viewport.view_y = centre[2]]
        s2 == Logged(s1, Event("invalidate", w, rec, s1, 0))
    IN  IF ~rec.viewport.present THEN Verdict(st, get_current_rotation)
        ELSE Verdict(call_event_viewport_rotate_on_all_windows(s2, s2.n - 1), rotation)

InitRotate ==
    /\ \E q \in RotateScenes :
          /\ g_window_list = ViewList(q)
          /\ gWindowNextSlot = Len(q)
    /\ window_limit = WINDOW_LIMIT_MAX
    /\ crashed = FALSE
    /\ last = Idle
    /\ gUsingWidgetTextBox = FALSE
    /\ gCurrentTextBox = NoTextBox
    /\ gCurrentRotation \in 0 .. 3
    /\ turns = <<>>
    /\ _finished = FALSE
    /\ mainThread = "frame"
    /\ replThread = "none"
    /\ frames = 0
    /\ variableFrame = FALSE
    /\ _lastTick = 0
    /\ indent = 0
    /\ more = FALSE
    /\ raced = FALSE
    /\ gWindowUpdateTicks = 0
    /\ SideStill
    /\ MusicIdle

Turn(before, direction, after) ==
    [before |-> before, direction |-> direction, after |-> after]

RotateCamera ==
    /\ Ready
    /\ Len(turns) < MaxTurns
    /\ \E w \in 0 .. gWindowNextSlot - 1, direction \in Directions, centre \in Centres :
          LET r == window_rotate_camera(Machine, w, direction, centre)
          IN  /\ g_window_list' = r.st.list
              /\ gWindowNextSlot' = r.st.n
              /\ crashed' = r.st.crashed
              /\ gCurrentRotation' = r.ret
              /\ turns' = IF g_window_list[w].viewport.present
                          THEN Append(turns, Turn(gCurrentRotation, direction, r.ret))
                          ELSE turns
              /\ last' = [op |-> "rotate_camera",
                          args |-> [NoArgs EXCEPT !.handle = w, !.value = direction],
                          ret |-> gCurrentRotation, pre |-> Live(Machine),
                          prelimit |-> window_limit, log |-> r.st.log]
    /\ UNCHANGED <<window_limit, textVars, loopVars, gWindowUpdateTicks, sideVars>>

NextRotate == RotateCamera \/ Return

SpecRotate == InitRotate /\ [][NextRotate]_vars

Rotated == last.op = "rotate_camera" /\ PreRec.viewport.present

RotateEvents == SelectSeq(last.log, LAMBDA ev : ev.e = "viewport_rotate")

(* C21: rotateCamera(w, d) on a window with a viewport sets the        *)
(* rotation to (old rotation + d) mod 4, a value of 0..3 also for      *)
(* d = -1 from rotation 0, and every window gets the rotate event; +1  *)
(* then -1, and four times +1, give back the rotation they started     *)
(* from; on a window without a viewport the rotation stays and no      *)
(* window gets the rotate event.                                       *)
C21_RotationModFour ==
    /\ gCurrentRotation \in 0 .. 3
    /\ Rotated =>
          /\ \E q \in -1 .. 1 : gCurrentRotation = last.ret + last.args.value + 4 * q
          /\ Len(RotateEvents) = gWindowNextSlot
          /\ \A k \in 1 .. Len(RotateEvents) :
                RotateEvents[k].idx = gWindowNextSlot - k
    /\ (last.op = "rotate_camera" /\ ~PreRec.viewport.present) =>
          /\ gCurrentRotation = last.ret
          /\ last.log = <<>>
          /\ Now = last.pre
    /\ \A k \in 1 .. Len(turns) - 1 :
          /\ turns[k + 1].before = turns[k].after
          /\ (turns[k].direction = 1 /\ turns[k + 1].direction = -1) =>
                turns[k + 1].after = turns[k].before
    /\ \A k \in 1 .. Len(turns) - 3 :
          (\A m \in 0 .. 3 : turns[k + m].direction = 1) =>
              turns[k + 3].after = turns[k].before

(* The camera was turned clockwise to rotation 0 and then              *)
(* anti-clockwise from it.                                             *)
C21_Witness ==
    /\ Rotated
    /\ last.ret = 0
    /\ last.args.value = -1
    /\ gCurrentRotation = 3
    /\ Len(turns) >= 2
    /\ turns[Len(turns) - 1].direction = 1
    /\ gWindowNextSlot = 3

(* Four clockwise turns in a row. *)
C21_WitnessFullTurn ==
    /\ Len(turns) >= 4
    /\ \A m \in 1 .. 4 : turns[m].direction = 1
    /\ turns[4].after = turns[1].before

(* ------------------------------------------------------------------ *)
(* The game loop and the console thread (Context.cpp).                 *)
(* ------------------------------------------------------------------ *)
MaxFrames == 2
MaxIndent == 1

(* What the game loop and the console thread leave alone. *)
worldVars ==
    <<g_window_list, gWindowNextSlot, window_limit, crashed, last, textVars,
      cameraVars, gWindowUpdateTicks, inputVars, moves, musicVars>>

MaxPending == 2

(* The script engine's console state: the inputs handed to it and not  *)
(* evaluated yet, and the evaluations made, each with the thread that  *)
(* made it and where.                                                  *)
Console == [queue |-> _evalQueue, evaluated |-> evaluated]

Evaluation(thread, at) == [thread |-> thread, at |-> at]

(* A ConsoleEval that evaluates the input where it is called. *)
ConsoleEval_inline(c, thread) ==
    [c EXCEPT !.evaluated = @ \cup {Evaluation(thread, "ConsoleEval")}]

(* ScriptEngine::ConsoleEval: the input is handed off to the main      *)
(* thread.                                                             *)
ConsoleEval(c, thread) == [c EXCEPT !.queue = Append(@, thread)]

(* script_engine_update, called by Update on the thread that runs the  *)
(* frame: the inputs handed off are evaluated.                         *)
script_engine_update(c, thread) ==
    [queue |-> <<>>,
     evaluated |-> IF c.queue = <<>> THEN c.evaluated
                   ELSE c.evaluated \cup {Evaluation(thread, "Update")}]

(* RunREPL: the main thread starts the console thread and goes on to   *)
(* RunGameLoop.                                                        *)
RunREPL ==
    /\ mainThread = "launch"
    /\ mainThread' = "begin"
    /\ replThread' = "sleep"
    /\ UNCHANGED <<_finished, frames, variableFrame, _lastTick, indent, more, raced,
                   worldVars, consoleVars>>

(* The head of RunGameLoop: _finished = false;                         *)
(* variableFrame = ShouldRunVariableFrame();                           *)
BeginGameLoop ==
    /\ mainThread = "begin"
    /\ _finished' = FALSE
    /\ raced' = FALSE
    /\ variableFrame' \in BOOLEAN
    /\ mainThread' = "frame"
    /\ UNCHANGED <<replThread, frames, _lastTick, indent, more, worldVars, consoleVars>>

(* One pass of the loop body: the frame mode is read again, a change   *)
(* of mode resets the tick, and the frame sets it; the frame's Update  *)
(* ends with script_engine_update.                                     *)
RunFrame ==
    /\ mainThread = "frame"
    /\ \E useVariableFrame \in BOOLEAN, currentTick \in {1, 2} :
          /\ variableFrame' = useVariableFrame
          /\ _lastTick' = currentTick
    /\ frames' = IF frames < MaxFrames THEN frames + 1 ELSE frames
    /\ LET c == script_engine_update(Console, "main")
       IN  /\ _evalQueue' = c.queue
           /\ evaluated' = c.evaluated
    /\ mainThread' = "check"
    /\ UNCHANGED <<_finished, replThread, indent, more, raced, worldVars>>

(* while (!_finished): the flag is a plain bool; a read that races     *)
(* with the console thread's write may or may not see it.              *)
CheckFinished ==
    /\ mainThread = "check"
    /\ \E seen \in {_finished} \cup (IF raced THEN {FALSE} ELSE {}) :
          /\ mainThread' = IF seen THEN "stopped" ELSE "frame"
          /\ raced' = IF seen THEN FALSE ELSE raced
    /\ UNCHANGED <<_finished, replThread, frames, variableFrame, _lastTick, indent,
                   more, worldVars, consoleVars>>

(* Finish(), called on the main thread before the loop or from within  *)
(* a frame.                                                            *)
Finish ==
    /\ mainThread \in {"launch", "begin", "frame"}
    /\ _finished' = TRUE
    /\ raced' = FALSE
    /\ UNCHANGED <<mainThread, replThread, frames, variableFrame, _lastTick, indent,
                   more, worldVars, consoleVars>>

(* The console thread has slept its second. *)
ReplWake ==
    /\ replThread = "sleep"
    /\ mainThread # "stopped"
    /\ replThread' = "readline"
    /\ UNCHANGED <<_finished, mainThread, frames, variableFrame, _lastTick, indent,
                   more, raced, worldVars, consoleVars>>

(* The console thread that evaluates a complete input itself. *)
ReplLine_inline ==
    /\ replThread = "readline"
    /\ mainThread # "stopped"
    /\ \E braces \in {-1, 0, 1} :
          /\ indent + braces \in (-MaxIndent) .. MaxIndent
          /\ indent' = indent + braces
          /\ more' = (indent + braces # 0)
          /\ LET c == IF indent + braces = 0
                      THEN ConsoleEval_inline(Console, "console")
                      ELSE Console
             IN  /\ Len(c.queue) <= MaxPending
                 /\ _evalQueue' = c.queue
                 /\ evaluated' = c.evaluated
    /\ UNCHANGED <<_finished, mainThread, replThread, frames, variableFrame,
                   _lastTick, raced, worldVars>>

(* Readline returned a line: braces are counted over the text so far;  *)
(* at depth 0 the text is given to ConsoleEval and dropped.            *)
ReplLine ==
    /\ replThread = "readline"
    /\ mainThread # "stopped"
    /\ \E braces \in {-1, 0, 1} :
          /\ indent + braces \in (-MaxIndent) .. MaxIndent
          /\ indent' = indent + braces
          /\ more' = (indent + braces # 0)
          /\ LET c == IF indent + braces = 0 THEN ConsoleEval(Console, "console")
                      ELSE Console
             IN  /\ Len(c.queue) <= MaxPending
                 /\ _evalQueue' = c.queue
                 /\ evaluated' = c.evaluated
    /\ UNCHANGED <<_finished, mainThread, replThread, frames, variableFrame,
                   _lastTick, raced, worldVars>>

(* Readline returned quit: _finished = true; break; *)
ReplQuit ==
    /\ replThread = "readline"
    /\ mainThread # "stopped"
    /\ _finished' = TRUE
    /\ raced' = TRUE
    /\ replThread' = "exited"
    /\ UNCHANGED <<mainThread, frames, variableFrame, _lastTick, indent, more,
                   worldVars, consoleVars>>

NextLoop ==
    \/ RunREPL \/ BeginGameLoop \/ RunFrame \/ CheckFinished
    \/ Finish \/ ReplWake \/ ReplLine \/ ReplQuit

SpecLoop == Init /\ [][NextLoop]_vars

(* Both threads are scheduled fairly: a step of the main thread or of  *)
(* the console thread that stays possible is taken.  When the user     *)
(* quits the console, and when Finish is called, is not forced.        *)
SpecLoopFair ==
    /\ Init
    /\ [][NextLoop]_vars
    /\ WF_vars(RunREPL)
    /\ WF_vars(BeginGameLoop)
    /\ WF_vars(RunFrame)
    /\ WF_vars(CheckFinished)
    /\ WF_vars(ReplWake)
    /\ WF_vars(ReplLine)

(* C23: once the finished flag has been set, no step sets it back to   *)
(* false.                                                              *)
C23_FlagMonotonic == [][_finished => _finished']_vars

(* C24: under fair scheduling, once cancellation has been requested    *)
(* the loop stops.                                                     *)
C24_LoopStops == _finished ~> (mainThread = "stopped")

ConsoleStep == ReplWake \/ ReplLine \/ ReplQuit

MaxProximity == 2
ScreenWidth == 100
ScreenHeight == 100
TOP_TOOLBAR_HEIGHT == 27
INT32_MAX == 2147483647
INT32_MIN == -INT32_MAX - 1

context_get_width == ScreenWidth
context_get_height == ScreenHeight

window_get_main(st) == window_find_by_class(st, WC_MAIN_WINDOW)

(* A viewport with its screen position. *)
ScreenViewportAt(x, y) == [present |-> TRUE, x |-> x, y |-> y]

(* window_snap_right: the smallest left edge of the other windows that *)
(* is within reach of w's right edge, or the screen's right edge.      *)
RECURSIVE SnapRightLoop(_, _, _, _, _)
SnapRightLoop(st, w, w2, proximity, leftMost) ==
    LET win == st.list[w]
        other == st.list[w2]
        wRight == win.x + win.width
        wBottom == win.y + win.height
    IN  IF w2 >= st.n THEN leftMost
        ELSE IF \/ w2 = w \/ w2 = window_get_main(st)
                \/ wBottom < other.y \/ win.y > other.y + other.height
                \/ other.x < wRight - proximity * 2
                \/ other.x > wRight + proximity * 2
             THEN SnapRightLoop(st, w, w2 + 1, proximity, leftMost)
             ELSE SnapRightLoop(st, w, w2 + 1, proximity, Min(leftMost, other.x))

window_snap_right(st, w, proximity) ==
    LET win == st.list[w]
        wRight == win.x + win.width
        found == SnapRightLoop(st, w, 0, proximity, INT32_MAX)
        screenWidth == context_get_width
        leftMost == IF /\ screenWidth >= wRight - proximity * 2
                       /\ screenWidth <= wRight + proximity * 2
                    THEN Min(found, screenWidth) ELSE found
    IN  IF leftMost # INT32_MAX THEN [st EXCEPT !.list[w].x = leftMost - win.width]
        ELSE st

RECURSIVE SnapBottomLoop(_, _, _, _, _)
SnapBottomLoop(st, w, w2, proximity, topMost) ==
    LET win == st.list[w]
        other == st.list[w2]
        wRight == win.x + win.width
        wBottom == win.y + win.height
    IN  IF w2 >= st.n THEN topMost
        ELSE IF \/ w2 = w \/ w2 = window_get_main(st)
                \/ wRight < other.x \/ win.x > other.x + other.width
                \/ other.y < wBottom - proximity * 2
                \/ other.y > wBottom + proximity * 2
             THEN SnapBottomLoop(st, w, w2 + 1, proximity, topMost)
             ELSE SnapBottomLoop(st, w, w2 + 1, proximity, Min(topMost, other.y))

window_snap_bottom(st, w, proximity) ==
    LET win == st.list[w]
        wBottom == win.y + win.height
        found == SnapBottomLoop(st, w, 0, proximity, INT32_MAX)
        screenHeight == context_get_height
        topMost == IF /\ screenHeight >= wBottom - proximity * 2
                      /\ screenHeight <= wBottom + proximity * 2
                   THEN Min(found, screenHeight) ELSE found
    IN  IF topMost # INT32_MAX THEN [st EXCEPT !.list[w].y = topMost - win.height]
        ELSE st

RECURSIVE SnapLeftLoop(_, _, _, _, _)
SnapLeftLoop(st, w, w2, proximity, rightMost) ==
    LET win == st.list[w]
        other == st.list[w2]
        wBottom == win.y + win.height
        right == other.x + other.width
    IN  IF w2 >= st.n THEN rightMost
        ELSE IF \/ w2 = w \/ w2 = window_get_main(st)
                \/ wBottom < other.y \/ win.y > other.y + other.height
                \/ right < win.x - proximity * 2
                \/ right > win.x + proximity * 2
             THEN SnapLeftLoop(st, w, w2 + 1, proximity, rightMost)
             ELSE SnapLeftLoop(st, w, w2 + 1, proximity, Max(rightMost, right))

window_snap_left(st, w, proximity) ==
    LET win == st.list[w]
        found == SnapLeftLoop(st, w, 0, proximity, INT32_MIN)
        rightMost == IF 0 >= win.x - proximity * 2 /\ 0 <= win.x + proximity * 2
                     THEN Max(found, 0) ELSE found
    IN  IF rightMost # INT32_MIN THEN [st EXCEPT !.list[w].x = rightMost] ELSE st

RECURSIVE SnapTopLoop(_, _, _, _, _)
SnapTopLoop(st, w, w2, proximity, bottomMost) ==
    LET win == st.list[w]
        other == st.list[w2]
        wRight == win.x + win.width
        bottom == other.y + other.height
    IN  IF w2 >= st.n THEN bottomMost
        ELSE IF \/ w2 = w \/ w2 = window_get_main(st)
                \/ wRight < other.x \/ win.x > other.x + other.width
                \/ bottom < win.y - proximity * 2
                \/ bottom > win.y + proximity * 2
             THEN SnapTopLoop(st, w, w2 + 1, proximity, bottomMost)
             ELSE SnapTopLoop(st, w, w2 + 1, proximity, Max(bottomMost, bottom))

window_snap_top(st, w, proximity) ==
    LET win == st.list[w]
        found == SnapTopLoop(st, w, 0, proximity, INT32_MIN)
        bottomMost == IF 0 >= win.y - proximity * 2 /\ 0 <= win.y + proximity * 2
                      THEN Max(found, 0) ELSE found
    IN  IF bottomMost # INT32_MIN THEN [st EXCEPT !.list[w].y = bottomMost] ELSE st

window_move_position(st, w, dx, dy) ==
    LET rec == st.list[w]
        s1 == Logged(st, Event("invalidate", w, rec, st, 0))
        s2 == [s1 EXCEPT !.list[w].x = @ + dx, !.list[w].y = @ + dy,
                         !.list[w].viewport.x = IF rec.viewport.present THEN @ + dx ELSE @,
                         !.list[w].viewport.y = IF rec.viewport.present THEN @ + dy ELSE @]
    IN  IF dx = 0 /\ dy = 0 THEN st
        ELSE Logged(s2, Event("invalidate", w, s2.list[w], s2, 0))

window_set_position(st, w, x, y) ==
    window_move_position(st, w, x - st.list[w].x, y - st.list[w].y)

window_move_and_snap_unclamped(st, w, newWindowX, newWindowY, snapProximity, titleDemo) ==
    LET original == st.list[w]
        moved == [st EXCEPT !.list[w].x = newWindowX, !.list[w].y = newWindowY]
        snapped == window_snap_top(
                       window_snap_left(
                           window_snap_bottom(
                               window_snap_right(moved, w, snapProximity),
                               w, snapProximity),
                           w, snapProximity),
                       w, snapProximity).list[w]
    IN  IF snapProximity > 0
        THEN IF snapped.x = original.x /\ snapped.y = original.y THEN st
             ELSE window_set_position(st, w, snapped.x, snapped.y)
        ELSE window_set_position(st, w, newWindowX, newWindowY)

(* window_move_and_snap; titleDemo is the title-demo bit of the screen *)
(* flags.                                                              *)
window_move_and_snap(st, w, newWindowX, newWindowY, snapProximity, titleDemo) ==
    LET original == st.list[w]
        minY == IF titleDemo THEN 1 ELSE TOP_TOOLBAR_HEIGHT + 2
        clampedY == Clamp(minY, newWindowY, context_get_height - 34)
        moved == [st EXCEPT !.list[w].x = newWindowX, !.list[w].y = clampedY]
        snapped == window_snap_top(
                       window_snap_left(
                           window_snap_bottom(
                               window_snap_right(moved, w, snapProximity),
                               w, snapProximity),
                           w, snapProximity),
                       w, snapProximity).list[w]
    IN  IF snapProximity > 0
        THEN IF snapped.x = original.x /\ snapped.y = original.y THEN st
             ELSE window_set_position(st, w, snapped.x, snapped.y)
        ELSE window_set_position(st, w, newWindowX, clampedY)

SnapPane(c, k, x, y, vp) ==
    [Pane(c, k, {}, x, y, 10, 10, <<Terminator>>) EXCEPT !.viewport = vp]

SnapTemplates ==
    { SnapPane(WC_RIDE, 0, 50, 40, ScreenViewportAt(52, 42)),
      SnapPane(WC_RIDE, 1, 52, 30, NoViewport),
      SnapPane(WC_PEEP, 0, 20, 60, NoViewport),
      SnapPane(WC_PEEP, 1, 5, 35, NoViewport) }

SnapMain ==
    [Pane(WC_MAIN_WINDOW, 0, {F_STICK_TO_BACK}, 0, 0, ScreenWidth, ScreenHeight,
          <<Terminator>>) EXCEPT !.viewport = ScreenViewportAt(0, 0)]

(* The main window and up to MaxOpen windows above it. *)
SnapScenes ==
    {<<SnapMain>> \o q : q \in {r \in SeqsUpTo(SnapTemplates, MaxOpen) :
                                  /\ r # <<>>
                                  /\ \A i, j \in 1 .. Len(r) :
                                        i < j => Key(r[i]) # Key(r[j])}}

InitSnap ==
    /\ \E q \in SnapScenes :
          /\ g_window_list = ListOf(q)
          /\ gWindowNextSlot = Len(q)
    /\ window_limit = WINDOW_LIMIT_MAX
    /\ crashed = FALSE
    /\ last = Idle
    /\ gUsingWidgetTextBox = FALSE
    /\ gCurrentTextBox = NoTextBox
    /\ EngineIdle

SnapXs == {-3, 30, 42, 43, 64, 88}
SnapYs == {10, 36, 47, 58, 80}

SnapArgs(w, x, y, proximity, titleDemo) ==
    [handle |-> w, x |-> x, y |-> y, value |-> proximity, titleDemo |-> titleDemo]

(* No window of the scene has been dragged yet. *)
Undragged ==
    \A i \in 0 .. gWindowNextSlot - 1 : g_window_list[i] \in SnapTemplates \cup {SnapMain}

MoveAndSnap ==
    /\ Ready
    /\ Undragged
    /\ \E w \in 1 .. gWindowNextSlot - 1, x \in SnapXs, y \in SnapYs,
          proximity \in 0 .. MaxProximity, titleDemo \in BOOLEAN :
          Commit("move_and_snap", SnapArgs(w, x, y, proximity, titleDemo),
                 window_move_and_snap(Machine, w, x, y, proximity, titleDemo), NULL)
    /\ UNCHANGED window_limit

NextSnap == MoveAndSnap \/ Return

SpecSnap == InitSnap /\ [][NextSnap]_vars

Dragged == last.pre[last.args.handle + 1]
Dropped == g_window_list[last.args.handle]
RequestedY ==
    Clamp(IF last.args.titleDemo THEN 1 ELSE TOP_TOOLBAR_HEIGHT + 2, last.args.y,
          ScreenHeight - 34)
Reach == 2 * last.args.value
Dist(a, b) == IF a > b THEN a - b ELSE b - a

(* The windows the dragged one can snap to: all but itself and the     *)
(* main window.                                                        *)
SnapOthers ==
    {last.pre[k] : k \in {m \in 1 .. Len(last.pre) :
                            /\ m # last.args.handle + 1
                            /\ last.pre[m].classification # WC_MAIN_WINDOW}}

(* Positions on the x axis that put an edge of the dragged window on   *)
(* an edge within reach, each with the distance of that edge from the  *)
(* requested one.                                                      *)
SnapsX ==
    LET X == last.args.x
        W == Dragged.width
        beside == {o \in SnapOthers :
                      ~(RequestedY + Dragged.height < o.y \/ RequestedY > o.y + o.height)}
        lefts == {o.x : o \in beside} \cup {ScreenWidth}
        rights == {o.x + o.width : o \in beside} \cup {0}
    IN  {<<e - W, Dist(e, X + W)>> : e \in {f \in lefts : Dist(f, X + W) <= Reach}}
        \cup {<<e, Dist(e, X)>> : e \in {f \in rights : Dist(f, X) <= Reach}}

SnapsY ==
    LET X == last.args.x
        H == Dragged.height
        beside == {o \in SnapOthers :
                      ~(X + Dragged.width < o.x \/ X > o.x + o.width)}
        tops == {o.y : o \in beside} \cup {ScreenHeight}
        bottoms == {o.y + o.height : o \in beside} \cup {0}
    IN  {<<e - H, Dist(e, RequestedY + H)>> :
            e \in {f \in tops : Dist(f, RequestedY + H) <= Reach}}
        \cup {<<e, Dist(e, RequestedY)>> :
                 e \in {f \in bottoms : Dist(f, RequestedY) <= Reach}}

Closest(snaps, requested, got) ==
    IF snaps = {} THEN got = requested
    ELSE \E c \in snaps : c[1] = got /\ \A d \in snaps : c[2] <= d[2]

(* C22: moveAndSnap with proximity > 0 leaves the window, on each      *)
(* axis, at the edge within reach (of another window, the main window  *)
(* excluded, or of the screen) that is closest to its requested edge,  *)
(* and at the requested coordinate (y clamped to the screen) when no   *)
(* edge is within reach.                                               *)
C22_SnapsToClosest ==
    (last.op = "move_and_snap" /\ last.args.value > 0) =>
        /\ Closest(SnapsX, last.args.x, Dropped.x)
        /\ Closest(SnapsY, RequestedY, Dropped.y)

(* The same on the x axis alone, for a drag that no edge is within     *)
(* reach of on the y axis.                                             *)
C22_ClosestOnX ==
    (last.op = "move_and_snap" /\ last.args.value > 0 /\ SnapsY = {}) =>
        Closest(SnapsX, last.args.x, Dropped.x)

(* Without snapping the window goes where it was asked to go. *)
C22_NoSnap ==
    (last.op = "move_and_snap" /\ (last.args.value = 0 \/ (SnapsX = {} /\ SnapsY = {})))
    => Dropped.x = last.args.x /\ Dropped.y = RequestedY

(* A window dragged to where its right edge meets the left edge of one *)
(* window, with the left edge of another two pixels further left, was  *)
(* put on the further edge.                                            *)
C22_FurtherEdgeTaken ==
    /\ last.op = "move_and_snap"
    /\ last.args.value = 1
    /\ last.args.x = 42
    /\ last.args.y = 36
    /\ SnapsY = {}
    /\ SnapsX = {<<40, 2>>, <<42, 0>>}
    /\ Dropped.x = 40
    /\ Dropped.y = 36

(* ------------------------------------------------------------------ *)
(* The update passes over the window list.                             *)
(* ------------------------------------------------------------------ *)
MaxBorder == 3
TickStep == 500

HBringToFront(c, k) == [kind |-> "front", cls |-> c, number |-> k]

(* A window with its update and periodic-tick handlers and the count   *)
(* in its white-border flag bits.                                      *)
Updating(c, k, f, update, unknown_07, border) ==
    Win(c, k, f, 0, 100, NoViewport, HNone)
        @@ [update |-> update, unknown_07 |-> unknown_07, border |-> border]

UpdateBlank == Blank @@ [update |-> HNull, unknown_07 |-> HNull, border |-> 0]

(* The windows of the update scenes: windows whose handlers close      *)
(* themselves, close another window or a class of windows, or bring a  *)
(* window to the front.                                                *)
UpdateTemplates ==
    { Updating(WC_MAIN_WINDOW, 0, {F_STICK_TO_BACK}, HNone, HNone, 0),
      Updating(WC_RIDE, 0, {}, HCloseNumber(WC_RIDE, 0), HNone, 0),
      Updating(WC_RIDE, 1, {}, HCloseClass(WC_RIDE), HNone, 1),
      Updating(WC_PEEP, 0, {}, HCloseNumber(WC_PEEP, 1), HCloseNumber(WC_PEEP, 0),
               MaxBorder),
      Updating(WC_PEEP, 1, {}, HNone, HBringToFront(WC_RIDE, 0), 0),
      Updating(WC_OPTIONS, 0, {}, HBringToFront(WC_PEEP, 1), HNone, 0) }

(* What an update or periodic-tick handler does. *)
RunHandler(st, h) ==
    CASE h.kind = "null" -> [st EXCEPT !.crashed = TRUE]
      [] h.kind = "none" -> st
      [] h.kind = "class" -> window_close_by_class(st, h.cls)
      [] h.kind = "number" -> window_close_by_number(st, h.cls, h.number)
      [] OTHER ->
            LET w == window_find_by_number(st, h.cls, h.number)
            IN  IF w = NULL THEN st ELSE window_bring_to_front(st, w).st

(* window_event_update_call(w) on whatever slot w holds: the handler   *)
(* runs unless the entry is null.                                      *)
window_event_update_call(st, w) ==
    LET h == st.list[w].update
        e == IF h.kind = "none" THEN "update_skip" ELSE "update"
    IN  RunHandler(Logged(st, Event(e, w, st.list[w], st, 0)), h)

window_event_unknown_07_call(st, w) ==
    LET h == st.list[w].unknown_07
        e == IF h.kind = "none" THEN "unknown_07_skip" ELSE "unknown_07"
    IN  RunHandler(Logged(st, Event(e, w, st.list[w], st, 0)), h)

RECURSIVE DispatchLoop(_, _)
(* for (w = RCT2_LAST_WINDOW; w >= g_window_list; w--) *)
(*     window_event_update_call(w);                    *)
DispatchLoop(st, w) ==
    IF w < 0 \/ st.crashed THEN st
    ELSE DispatchLoop(window_event_update_call(st, w), w - 1)

window_dispatch_update_all(st) == DispatchLoop(st, st.n - 1)

RECURSIVE TickLoop(_, _)
TickLoop(st, w) ==
    IF w < 0 \/ st.crashed THEN st
    ELSE TickLoop(window_event_unknown_07_call(st, w), w - 1)

(* The border flash pass: the count in the flag bits goes down by one, *)
(* and the window is invalidated when it reaches zero.                 *)
RECURSIVE BorderLoop(_, _)
BorderLoop(st, w) ==
    IF w < 0 THEN st
    ELSE LET rec == st.list[w]
             s1 == [st EXCEPT !.list[w].border = @ - 1]
         IN  IF rec.border = 0 THEN BorderLoop(st, w - 1)
             ELSE IF rec.border = 1
             THEN BorderLoop(Logged(s1, Event("invalidate", w, rec, s1, 0)), w - 1)
             ELSE BorderLoop(s1, w - 1)

(* window_update_all with the wheel at rest (window_all_wheel_input    *)
(* returns at once); `ticks` is gWindowUpdateTicks after the addition. *)
window_update_all(st, ticks) ==
    LET s1 == IF ticks >= 1000 THEN TickLoop(st, st.n - 1) ELSE st
    IN  IF s1.crashed THEN s1 ELSE BorderLoop(s1, s1.n - 1)

InitUpdate ==
    /\ \E q \in Scenes(UpdateTemplates) :
          /\ g_window_list = [i \in Slots |-> IF i < Len(q) THEN q[i + 1]
                                             ELSE UpdateBlank]
          /\ gWindowNextSlot = Len(q)
    /\ window_limit = WINDOW_LIMIT_MAX
    /\ crashed = FALSE
    /\ last = Idle
    /\ gUsingWidgetTextBox = FALSE
    /\ gCurrentTextBox = NoTextBox
    /\ EngineIdle

CommitUpdate(op, ticksSince, r, ticks) ==
    /\ g_window_list' = r.list
    /\ gWindowNextSlot' = r.n
    /\ crashed' = r.crashed
    /\ gWindowUpdateTicks' = ticks
    /\ last' = [op |-> op, args |-> [NoArgs EXCEPT !.value = ticksSince], ret |-> NULL,
                pre |-> Live(Machine), prelimit |-> window_limit, log |-> r.log]
    /\ UNCHANGED <<window_limit, textVars, cameraVars, loopVars, sideVars>>

DispatchUpdateAll ==
    /\ Ready
    /\ CommitUpdate("dispatch_update_all", 0, window_dispatch_update_all(Machine),
                    gWindowUpdateTicks)

UpdateAll ==
    /\ Ready
    /\ \E gTicksSinceLastUpdate \in {0, TickStep} :
          LET ticks == (gWindowUpdateTicks + gTicksSinceLastUpdate) % 65536
          IN  CommitUpdate("update_all", gTicksSinceLastUpdate,
                           window_update_all(Machine, ticks),
                           IF ticks >= 1000 THEN 0 ELSE ticks)

NextUpdate == DispatchUpdateAll \/ UpdateAll \/ Return

SpecUpdate == InitUpdate /\ [][NextUpdate]_vars

PassEvents ==
    {k \in 1 .. Len(last.log) : last.log[k].e \in {"update", "unknown_07"}}

(* C25: in a pass of update-all or updateAll no handler is invoked on  *)
(* a slot at or beyond the end of the list as it then is, and no open  *)
(* window gets the event of the pass twice.                            *)
C25_PassOnCurrentList ==
    last.op \in {"dispatch_update_all", "update_all"} =>
        /\ \A k \in PassEvents : ~Stale(last.log[k])
        /\ \A k, m \in PassEvents :
              (/\ k < m
               /\ ~Stale(last.log[k])
               /\ ~Stale(last.log[m])
               /\ last.log[k].e = last.log[m].e)
              => LogKey(last.log[k]) # LogKey(last.log[m])

(* The same, for the slots alone. *)
C25_NoStaleSlot ==
    last.op \in {"dispatch_update_all", "update_all"} =>
        \A k \in PassEvents : ~Stale(last.log[k])

(* The same, for the second delivery alone. *)
C25_NoSecondDelivery ==
    last.op \in {"dispatch_update_all", "update_all"} =>
        \A k, m \in PassEvents :
            (/\ k < m
             /\ ~Stale(last.log[k])
             /\ ~Stale(last.log[m])
             /\ last.log[k].e = last.log[m].e)
            => LogKey(last.log[k]) # LogKey(last.log[m])

(* A pass in which no handler changes the list calls every window     *)
(* once, from the last window to the first.                            *)
C25_QuietPass ==
    (last.op = "dispatch_update_all" /\ Now = last.pre) =>
        /\ Len(last.log) = Len(last.pre)
        /\ \A k \in 1 .. Len(last.log) :
              /\ last.log[k].e \in {"update", "update_skip"}
              /\ last.log[k].idx = Len(last.pre) - k

(* ------------------------------------------------------------------ *)
(* The vertical range of a dragged window.                             *)
(* ------------------------------------------------------------------ *)
MinY == IF last.args.titleDemo THEN 1 ELSE TOP_TOOLBAR_HEIGHT + 2

C37_UnsnappedWithinRange ==
    (last.op = "move_and_snap" /\ last.args.value = 0) =>
        (MinY <= Dropped.y /\ Dropped.y <= context_get_height - 34)

MAX_RIDE_MUSIC_CHANNELS == 2
ChannelLead == 10000
TUNE_ID_NULL == 255
RIDE_TYPE_CIRCUS == "RIDE_TYPE_CIRCUS"
RIDE_TYPE_OTHER == "RIDE_TYPE_OTHER"

(* A size_t is held as a small integer: v >= 0 is v, and v < 0 is the  *)
(* value 2^64 + v that an unsigned subtraction wraps to.               *)
SizeLess(a, b) == IF (a < 0) = (b < 0) THEN a < b ELSE b < 0
SizeMax(a, b) == IF SizeLess(a, b) THEN b ELSE a

(* std::max<size_t>(0, instance.Offset - 10000) *)
StartOffset(offset) == SizeMax(0, offset - ChannelLead)

I16(v) == ((v + 32768) % 65536) - 32768
U8(v) == v % 256

(* The tracks of the loaded music objects: the step and the length of  *)
(* each tune.                                                          *)
Track(offset, length) == [Offset |-> offset, Length |-> length]
MusicObjects ==
    <<  <<Track(15000, 30000)>>,
        <<Track(15000, 30000), Track(15000, 30000)>>  >>

Ride(id, type, music, tune) ==
    [id |-> id, type |-> type, music |-> music, music_tune_id |-> tune,
     music_position |-> 0]

(* The rides of the park: a circus and a ride that plays a tune of a   *)
(* music object.                                                       *)
ParkRides ==
    <<Ride(0, RIDE_TYPE_CIRCUS, 1, 0), Ride(1, RIDE_TYPE_OTHER, 2, 1)>>

get_ride(rs, id) == rs[id + 1]

Instance(rideId, trackIndex, offset, volume, pan, frequency) ==
    [RideId |-> rideId, TrackIndex |-> trackIndex, Offset |-> offset,
     Volume |-> volume, Pan |-> pan, Frequency |-> frequency]

(* The music state an operation works on, with the channels it started. *)
Music == [instances |-> _musicInstances, channels |-> _musicChannels, rides |-> rides,
          log |-> <<>>]

(* RideMusicChannel(instance, channel) *)
RideMusicChannel(instance) ==
    [RideId |-> instance.RideId, TrackIndex |-> instance.TrackIndex,
     Offset |-> StartOffset(instance.Offset), Volume |-> instance.Volume,
     Pan |-> instance.Pan, Frequency |-> instance.Frequency]

(* RideMusicChannel::Update *)
ChannelUpdate(channel, instance) ==
    [channel EXCEPT !.Volume = instance.Volume, !.Pan = instance.Pan,
                    !.Frequency = instance.Frequency]

SameTrack(a, b) == a.RideId = b.RideId /\ a.TrackIndex = b.TrackIndex

(* StartRideMusicChannel; mixerOk tells whether the mixer gives a      *)
(* channel.                                                            *)
StartRideMusicChannel(m, instance, mixerOk) ==
    LET ride == get_ride(m.rides, instance.RideId)
        tracks == MusicObjects[ride.music]
        started == [m EXCEPT !.channels = Append(@, RideMusicChannel(instance)),
                             !.log = Append(@, [e |-> "start", instance |-> instance,
                                                offset |-> RideMusicChannel(instance).Offset])]
    IN  IF ride.type = RIDE_TYPE_CIRCUS
        THEN (IF mixerOk THEN started ELSE m)
        ELSE IF instance.TrackIndex < Len(tracks) /\ mixerOk THEN started ELSE m

(* StopInactiveRideMusicChannels; `silent` are the channels that have  *)
(* stopped playing.                                                    *)
StopInactiveRideMusicChannels(m, silent) ==
    LET keep(k) ==
            /\ \E i \in 1 .. Len(m.instances) : SameTrack(m.instances[i], m.channels[k])
            /\ k \notin silent
        kept == {k \in 1 .. Len(m.channels) : keep(k)}
        RECURSIVE Pack(_)
        Pack(k) == IF k > Len(m.channels) THEN <<>>
                   ELSE IF k \in kept THEN <<m.channels[k]>> \o Pack(k + 1)
                   ELSE Pack(k + 1)
    IN  [m EXCEPT !.channels = Pack(1)]

UpdateRideMusicChannelForMusicParams(m, instance, mixerOk) ==
    LET found == {k \in 1 .. Len(m.channels) : SameTrack(m.channels[k], instance)}
        foundChannel == CHOOSE k \in found : \A j \in found : k <= j
    IN  IF found # {}
        THEN [m EXCEPT !.channels[foundChannel] = ChannelUpdate(@, instance)]
        ELSE IF Len(m.channels) < MAX_RIDE_MUSIC_CHANNELS
        THEN StartRideMusicChannel(m, instance, mixerOk)
        ELSE m

RECURSIVE ChannelsLoop(_, _, _)
ChannelsLoop(m, i, mixerOk) ==
    IF i > Len(m.instances) THEN m
    ELSE ChannelsLoop(UpdateRideMusicChannelForMusicParams(m, m.instances[i], mixerOk),
                      i + 1, mixerOk)

(* RideUpdateMusicChannels; `off` is the screen flags, the sound       *)
(* switch and the music setting together.                              *)
RideUpdateMusicChannels(m, off, silent, mixerOk) ==
    IF off THEN m
    ELSE ChannelsLoop(StopInactiveRideMusicChannels(m, silent), 1, mixerOk)

RideMusicGetTuneOffsetLength(ride) ==
    LET tracks == MusicObjects[ride.music]
    IN  IF ride.music_tune_id < Len(tracks)
        THEN <<tracks[ride.music_tune_id + 1].Offset, tracks[ride.music_tune_id + 1].Length>>
        ELSE <<0, 0>>

StopTune(m, id) ==
    [m EXCEPT !.rides[id + 1].music_tune_id = TUNE_ID_NULL,
              !.rides[id + 1].music_position = 0]

(* RideUpdateMusicPosition(ride) *)
RideUpdateMusicPosition(m, id) ==
    LET ride == get_ride(m.rides, id)
        tune == RideMusicGetTuneOffsetLength(ride)
        position == ride.music_position + tune[1]
    IN  IF position < tune[2] THEN [m EXCEPT !.rides[id + 1].music_position = position]
        ELSE StopTune(m, id)

(* The instance list that never checks the instance limit. *)
RideUpdateMusicPositionAt_unlimited(m, id, offset, volume, pan, sampleRate) ==
    LET ride == get_ride(m.rides, id)
        tune == RideMusicGetTuneOffsetLength(ride)
        heard == [m EXCEPT !.instances =
                     Append(@, Instance(ride.id, ride.music_tune_id, offset, volume,
                                        I16(pan), sampleRate))]
    IN  IF SizeLess(offset, tune[2])
        THEN [heard EXCEPT !.rides[id + 1].music_position = offset]
        ELSE StopTune(m, id)

(* RideUpdateMusicPosition(ride, offset, volume, pan, sampleRate) *)
RideUpdateMusicPositionAt(m, id, offset, volume, pan, sampleRate) ==
    LET ride == get_ride(m.rides, id)
        tune == RideMusicGetTuneOffsetLength(ride)
        heard == IF Len(m.instances) < MAX_RIDE_MUSIC_CHANNELS
                 THEN [m EXCEPT !.instances =
                          Append(@, Instance(ride.id, ride.music_tune_id, offset, volume,
                                             I16(pan), sampleRate))]
                 ELSE m
    IN  IF SizeLess(offset, tune[2])
        THEN [heard EXCEPT !.rides[id + 1].music_position = offset]
        ELSE StopTune(m, id)

unkn(a) ==
    LET b == Min(IF a < 0 THEN -a ELSE a, 6143) - 2048
    IN  IF b > 0 THEN U8(Clamp(0, CDiv(-(CDiv(b, 4) - 1024), 4), 255)) ELSE 255

(* The viewport the ride music is tracked in. *)
MusicViewport ==
    [pos |-> <<0, 0>>, viewPos |-> <<0, 0>>, view_width |-> 64, view_height |-> 64,
     zoom |-> 1]

(* RideUpdateMusicInstance; rotatedCoords is the ride's place in the   *)
(* view, `off` the screen flags, the sound switch and the lack of a    *)
(* tracking viewport together, `playing` and `channelOffset` what the  *)
(* mixer says of the ride's channel.                                   *)
RideUpdateMusicInstance(m, id, rotatedCoords, sampleRate, off, gVolumeAdjustZoom, playing, channelOffset) ==
    LET ride == get_ride(m.rides, id)
        viewport == MusicViewport
        view_width == I16(viewport.view_width)
        view_width2 == I16(view_width * 2)
        view_x == I16(viewport.viewPos[1] - view_width2)
        view_y == I16(viewport.viewPos[2] - view_width)
        view_x2 == I16(view_width2 + view_width2 + viewport.view_width + view_x)
        view_y2 == I16(view_width + view_width + viewport.view_height + view_y)
        x2 == (viewport.pos[1] + CDiv(rotatedCoords[1] - viewport.viewPos[1], viewport.zoom))
                  * 65536
        screenwidth == Max(context_get_width, 64)
        pan_x == (CDiv(x2, screenwidth) - 32768) \div 16
        y2 == (viewport.pos[2] + CDiv(rotatedCoords[2] - viewport.viewPos[2], viewport.zoom))
                  * 65536
        screenheight == Max(context_get_height, 64)
        pan_y == (CDiv(y2, screenheight) - 32768) \div 16
        volA == unkn(pan_y)
        volB == unkn(pan_x)
        volMin == Min(volA, volB)
        volC == IF volMin < gVolumeAdjustZoom * 3 THEN 0
                ELSE U8(volMin - gVolumeAdjustZoom * 3)
        newVolume == I16(-CDiv(U8(-volC - 1) * U8(-volC - 1), 16) - 700)
        newPan == Clamp(-10000, pan_x, 10000)
        found == {k \in 1 .. Len(m.channels) :
                     /\ m.channels[k].RideId = ride.id
                     /\ m.channels[k].TrackIndex = ride.music_tune_id}
        tune == RideMusicGetTuneOffsetLength(ride)
    IN  IF off THEN m
        ELSE IF \/ view_x >= rotatedCoords[1] \/ view_y >= rotatedCoords[2]
                \/ view_x2 < rotatedCoords[1] \/ view_y2 < rotatedCoords[2]
        THEN RideUpdateMusicPosition(m, id)
        ELSE IF volC # 0 /\ newVolume >= -4000
        THEN IF found # {}
             THEN IF playing
                  THEN RideUpdateMusicPositionAt(m, id, channelOffset, newVolume, newPan,
                                                 sampleRate)
                  ELSE StopTune(m, id)
             ELSE RideUpdateMusicPositionAt(m, id, ride.music_position + tune[1],
                                            newVolume, pan_x, sampleRate)
        ELSE RideUpdateMusicPosition(m, id)

InitMusic ==
    /\ g_window_list = [i \in Slots |-> Blank]
    /\ gWindowNextSlot = 0
    /\ window_limit = WINDOW_LIMIT_MAX
    /\ crashed = FALSE
    /\ last = Idle
    /\ gUsingWidgetTextBox = FALSE
    /\ gCurrentTextBox = NoTextBox
    /\ EngineStill
    /\ SideStill
    /\ _musicInstances = <<>>
    /\ _musicChannels = <<>>
    /\ rides = ParkRides

(* What the ride music leaves alone. *)
nonMusicVars ==
    <<g_window_list, gWindowNextSlot, window_limit, crashed, textVars, cameraVars,
      loopVars, gWindowUpdateTicks, inputVars, moves, consoleVars>>

(* What is kept of a call: the ride, whether the instance list was    *)
(* full, and whether the ride's music went on.                         *)
MusicArgs(id, m) ==
    [handle |-> id,
     full |-> Len(_musicInstances) = MAX_RIDE_MUSIC_CHANNELS,
     played |-> /\ id # NULL
                /\ get_ride(m.rides, id).music_tune_id # TUNE_ID_NULL
                /\ get_ride(m.rides, id).music_position
                       # get_ride(rides, id).music_position]

CommitMusic(op, args, m) ==
    /\ _musicInstances' = m.instances
    /\ _musicChannels' = m.channels
    /\ rides' = m.rides
    /\ last' = [op |-> op, args |-> args, ret |-> NULL, pre |-> <<>>,
                prelimit |-> window_limit, log |-> m.log]
    /\ UNCHANGED nonMusicVars

(* Where a ride can be in the view: in the middle, far to the right   *)
(* (too quiet), and out of the view.                                   *)
MusicCoords == {<<50, 50>>, <<190, 50>>, <<300, 50>>}
ChannelOffsets == {5000, 40000}

UpdateMusicInstance ==
    /\ Ready
    /\ \E id \in 0 .. Len(rides) - 1, rotatedCoords \in MusicCoords, off \in BOOLEAN,
          playing \in BOOLEAN, channelOffset \in ChannelOffsets :
          LET m == RideUpdateMusicInstance(Music, id, rotatedCoords, 22050, off, 0,
                                           playing, channelOffset)
          IN  CommitMusic("update_instance", MusicArgs(id, m), m)

UpdateMusicChannels ==
    /\ Ready
    /\ \E off \in BOOLEAN, silent \in SUBSET (1 .. Len(_musicChannels)),
          mixerOk \in BOOLEAN :
          CommitMusic("update_channels", MusicArgs(NULL, Music),
                      RideUpdateMusicChannels(Music, off, silent, mixerOk))

(* RideAudioClearAllViewportInstances *)
ClearAllViewportInstances ==
    /\ Ready
    /\ CommitMusic("clear_instances", MusicArgs(NULL, Music),
                   [Music EXCEPT !.instances = <<>>])

(* RideAudioStopAllChannels *)
StopAllChannels ==
    /\ Ready
    /\ CommitMusic("stop_channels", MusicArgs(NULL, Music),
                   [Music EXCEPT !.channels = <<>>])

NextMusic ==
    \/ UpdateMusicInstance \/ UpdateMusicChannels \/ ClearAllViewportInstances
    \/ StopAllChannels \/ Return

SpecMusic == InitMusic /\ [][NextMusic]_vars

(* C39: at most 32 viewport music instances and at most 32 music       *)
(* channels exist, and no two channels play the same ride and track.   *)
C39_MusicBounded ==
    /\ Len(_musicInstances) <= MAX_RIDE_MUSIC_CHANNELS
    /\ Len(_musicChannels) <= MAX_RIDE_MUSIC_CHANNELS
    /\ \A i, j \in 1 .. Len(_musicChannels) :
          i < j => ~SameTrack(_musicChannels[i], _musicChannels[j])

(* A ride was heard with the instance list full: no instance was added *)
(* for it.                                                             *)
C39_Witness ==
    /\ last.op = "update_instance"
    /\ last.args.full
    /\ last.args.played
    /\ Len(_musicInstances) = MAX_RIDE_MUSIC_CHANNELS

(* Two instances of one ride and track were heard and one channel      *)
(* plays them; every channel is in use.                                *)
C39_WitnessShared ==
    /\ last.op = "update_channels"
    /\ Len(_musicChannels) = MAX_RIDE_MUSIC_CHANNELS
    /\ Len(_musicInstances) > MAX_RIDE_MUSIC_CHANNELS - 1
    /\ \E i, j \in 1 .. Len(_musicInstances) :
          i < j /\ SameTrack(_musicInstances[i], _musicInstances[j])

Starts == {k \in 1 .. Len(last.log) : last.log[k].e = "start"}

(* C40: a newly started channel begins at max(0, instance offset -     *)
(* 10000): at 0 for every instance offset below 10000.                 *)
C40_StartOffset ==
    last.op = "update_channels" =>
        \A k \in Starts :
            last.log[k].offset =
                IF last.log[k].instance.Offset < ChannelLead THEN 0
                ELSE last.log[k].instance.Offset - ChannelLead

(* A channel started from an instance offset of 10000 or more begins   *)
(* 10000 before it.                                                    *)
C40_LateStart ==
    last.op = "update_channels" =>
        \A k \in Starts :
            last.log[k].instance.Offset >= ChannelLead =>
                last.log[k].offset = last.log[k].instance.Offset - ChannelLead

(* ------------------------------------------------------------------ *)
(* The mouse wheel pass: window_all_wheel_input, the scroll regions it *)
(* scrolls and the viewport it zooms.                                  *)
(* ------------------------------------------------------------------ *)
WINDOW_SCROLL_PIXELS == 17
MaxWheel == 1

HSCROLLBAR_VISIBLE == "HSCROLLBAR_VISIBLE"
VSCROLLBAR_VISIBLE == "VSCROLLBAR_VISIBLE"
INPUT_FLAG_5 == "INPUT_FLAG_5"
WC_VIEWPORT == "WC_VIEWPORT"

(* The offsets, extents and thumbs of a scroll region are 16 bits wide. *)
U16(v) == v % 65536

(* std::lround of the quotient num / den. *)
LRound(num, den) ==
    LET n == IF den < 0 THEN -num ELSE num
        d == IF den < 0 THEN -den ELSE den
    IN  IF n >= 0 THEN (2 * n + d) \div (2 * d) ELSE -((2 * (-n) + d) \div (2 * d))

(* The thumb of one scrollbar: its two ends along the bar. *)
Thumb(offset, content, extent, other) ==
    LET view_size == extent - 21 - (IF other THEN 11 ELSE 0)
        x0 == offset * view_size
        lo == U16((IF content # 0 THEN CDiv(x0, content) ELSE x0) + 11)
        x1 == extent - 2 - (IF other THEN 11 ELSE 0) + offset
        x2 == (IF content # 0 THEN CDiv(x1 * view_size, content) ELSE x1) + 11
        view == view_size + 10
        hi == U16(Min(x2, view))
    IN  IF hi - lo < 20
        THEN <<U16(LRound(lo * view - 20 * hi, view)),
               U16(LRound(hi * view + 20 * (view - hi), view))>>
        ELSE <<lo, hi>>

(* widget_scroll_update_thumbs on the scroll data of a widget. *)
UpdateThumbs(scroll, widget) ==
    LET h == Thumb(scroll.h_left, scroll.h_right, widget.right - widget.left,
                   VSCROLLBAR_VISIBLE \in scroll.flags)
        v == Thumb(scroll.v_top, scroll.v_bottom, widget.bottom - widget.top,
                   HSCROLLBAR_VISIBLE \in scroll.flags)
        s1 == IF HSCROLLBAR_VISIBLE \in scroll.flags
              THEN [scroll EXCEPT !.h_thumb_left = h[1], !.h_thumb_right = h[2]]
              ELSE scroll
    IN  IF VSCROLLBAR_VISIBLE \in scroll.flags
        THEN [s1 EXCEPT !.v_thumb_top = v[1], !.v_thumb_bottom = v[2]]
        ELSE s1

widget_scroll_update_thumbs(st, w, widget_index) ==
    LET win == st.list[w]
        k == window_get_scroll_data_index(win, widget_index) + 1
    IN  [st EXCEPT !.list[w].scrolls[k] = UpdateThumbs(@, WidgetAt(win, widget_index))]

(* The range that takes the whole content for scrollable. *)
ScrollRange_content(extent, other, content) == Max(0, content)

(* The largest offset of a scroll region along one axis: the content   *)
(* less the visible extent, and never below zero.                      *)
ScrollRange(extent, other, content) ==
    LET size == extent - 1 - (IF other THEN 11 ELSE 0)
    IN  Max(0, content - size)

window_scroll_wheel_input(st, w, scrollIndex, wheel) ==
    LET win == st.list[w]
        scroll == win.scrolls[scrollIndex + 1]
        widget == window_get_scroll_widget(win, scrollIndex)
        widgetIndex == window_get_widget_index(win, widget)
        wd == WidgetAt(win, widget)
        scrolled ==
            IF VSCROLLBAR_VISIBLE \in scroll.flags
            THEN [scroll EXCEPT !.v_top =
                     U16(Min(Max(0, @ + wheel),
                             ScrollRange(wd.bottom - wd.top,
                                         HSCROLLBAR_VISIBLE \in scroll.flags,
                                         scroll.v_bottom)))]
            ELSE [scroll EXCEPT !.h_left =
                     U16(Min(Max(0, @ + wheel),
                             ScrollRange(wd.right - wd.left,
                                         VSCROLLBAR_VISIBLE \in scroll.flags,
                                         scroll.h_right)))]
        s1 == [st EXCEPT !.list[w].scrolls[scrollIndex + 1] = scrolled]
    IN  IF widget = NULL THEN [st EXCEPT !.crashed = TRUE]
        ELSE widget_invalidate(widget_scroll_update_thumbs(s1, w, widgetIndex), w,
                               widgetIndex)

(* Where a wheel pass went: to a scroll region, to the viewport, to a  *)
(* button, or nowhere.                                                 *)
Routed(route, w, widgetIndex, scrollIndex) ==
    [route |-> route, handle |-> w, widgetIndex |-> widgetIndex,
     scroll |-> scrollIndex]

(* The walk that always takes the first scroll view of the window. *)
RECURSIVE WheelInputLoop_first(_, _, _, _, _, _)
WheelInputLoop_first(st, w, wheel, widget, i, under) ==
    LET win == st.list[w]
    IN  IF WidgetAt(win, widget).type = WWT_LAST
        THEN Verdict(st, Routed("none", w, under, NULL))
        ELSE IF WidgetAt(win, widget).type # WWT_SCROLL
        THEN WheelInputLoop_first(st, w, wheel, widget + 1, i, under)
        ELSE Verdict(window_scroll_wheel_input(st, w, 0, wheel),
                     Routed("scroll", w, under, 0))

RECURSIVE WheelInputLoop(_, _, _, _, _, _)
WheelInputLoop(st, w, wheel, widget, i, under) ==
    LET win == st.list[w]
    IN  IF WidgetAt(win, widget).type = WWT_LAST
        THEN Verdict(st, Routed("none", w, under, NULL))
        ELSE IF WidgetAt(win, widget).type # WWT_SCROLL
        THEN WheelInputLoop(st, w, wheel, widget + 1, i, under)
        ELSE IF win.scrolls[i + 1].flags
                    \cap {HSCROLLBAR_VISIBLE, VSCROLLBAR_VISIBLE} # {}
        THEN Verdict(window_scroll_wheel_input(st, w, i, wheel),
                     Routed("scroll", w, under, i))
        ELSE WheelInputLoop(st, w, wheel, widget + 1, i + 1, under)

window_wheel_input_first(st, w, wheel, under) ==
    WheelInputLoop_first(st, w, wheel, 0, 0, under)

(* window_wheel_input: the first scroll view of the window with a      *)
(* visible scrollbar is scrolled.  `under` is the widget the cursor is *)
(* over, kept for the record of the pass.                              *)
window_wheel_input(st, w, wheel, under) == WheelInputLoop(st, w, wheel, 0, 0, under)

(* window_viewport_wheel_input.  `blocked` is gScreenFlags having the  *)
(* track manager or the title demo.                                    *)
window_viewport_wheel_input(st, w, wheel, blocked, zoom_to_cursor, anchor) ==
    IF blocked THEN Verdict(st, Routed("none", w, -1, NULL))
    ELSE IF ~st.list[w].viewport.present
    THEN Verdict([st EXCEPT !.crashed = TRUE], Routed("none", w, -1, NULL))
    ELSE LET level == st.list[w].viewport.zoom + (IF wheel < 0 THEN -1 ELSE 1)
             r == window_zoom_set(st, w, level, zoom_to_cursor, anchor)
         IN  Verdict(r.st, Routed("zoom", r.ret, -1, NULL))

(* window_event_mouse_down_call on the button the wheel stands for. *)
window_event_mouse_down_call(st, w, widgetIndex) ==
    Logged(st, Event("mouse_down", w, st.list[w], st, widgetIndex))

(* window_all_wheel_input.  The cursor state gives absolute_wheel, x   *)
(* and y; `previous` is _previousAbsoluteWheel and `flag5` is          *)
(* input_test_flag(INPUT_FLAG_5).                                      *)
window_all_wheel_input(st, previous, flag5, absolute_wheel, x, y, blocked, disabled, zoom_to_cursor, anchor) ==
    LET relative_wheel == absolute_wheel - previous
        pixel_scroll == relative_wheel * WINDOW_SCROLL_PIXELS
        w == window_find_from_point(st, x, y)
        win == st.list[w]
        widgetIndex == window_find_widget_from_point(win, x, y)
        widget == ReadWidget(win.widgets, widgetIndex, WheelTerminator)
        scrollIndex == window_get_scroll_index(win, widgetIndex)
        other == window_other_wheel_input(win, widgetIndex, pixel_scroll, disabled,
                                          WheelTerminator)
    IN  IF relative_wheel = 0 \/ flag5 \/ w = NULL
        THEN Verdict(st, Routed("none", NULL, -1, NULL))
        ELSE IF win.classification \in {WC_MAIN_WINDOW, WC_VIEWPORT}
        THEN window_viewport_wheel_input(st, w, relative_wheel, blocked,
                                         zoom_to_cursor, anchor)
        ELSE IF widgetIndex = -1 THEN Verdict(st, Routed("none", w, -1, NULL))
        ELSE IF /\ widget.type = WWT_SCROLL
                /\ win.scrolls[scrollIndex + 1].flags
                       \cap {HSCROLLBAR_VISIBLE, VSCROLLBAR_VISIBLE} # {}
        THEN Verdict(window_scroll_wheel_input(st, w, scrollIndex, pixel_scroll),
                     Routed("scroll", w, widgetIndex, scrollIndex))
        ELSE IF widget.type # WWT_SCROLL /\ other.handled
        THEN Verdict(window_event_mouse_down_call(st, w, other.pressed),
                     Routed("button", w, widgetIndex, NULL))
        ELSE window_wheel_input(st, w, pixel_scroll, widgetIndex)

(* A scroll region as a new window has it, with nothing scrolled. *)
Scroll(flags, content, widget) ==
    UpdateThumbs([flags |-> flags, h_left |-> 0, h_right |-> content, v_top |-> 0,
                  v_bottom |-> content, h_thumb_left |-> 0, h_thumb_right |-> 0,
                  v_thumb_top |-> 0, v_thumb_bottom |-> 0], widget)

(* Widget i of a scroll scene: 40 wide and 60 high, in column i. *)
ColumnWidget(kind, i) ==
    [type |-> kind[1], left |-> 50 * i, top |-> 0, right |-> 50 * i + 40,
     bottom |-> 60, image |-> kind[2]]

ColumnTable(kinds) ==
    Append([i \in 1 .. Len(kinds) |-> ColumnWidget(kinds[i], i - 1)], WheelTerminator)

ScrollKind == <<WWT_SCROLL, NoImage>>

(* The widget tables of the scroll scenes: two scroll views, a preview *)
(* with its two buttons before a scroll view, and a dropdown before a  *)
(* scroll view.                                                        *)
ScrollTables ==
    { ColumnTable(<<ScrollKind, ScrollKind>>),
      ColumnTable(<<<<WWT_IMGBTN, NoImage>>, <<WWT_TRNBTN, SPR_LAND_TOOL_DECREASE>>,
                    <<WWT_TRNBTN, SPR_LAND_TOOL_INCREASE>>, ScrollKind>>),
      ColumnTable(<<<<WWT_DROPDOWN, NoImage>>, ScrollKind>>) }

ScrollFlagSets == SUBSET {HSCROLLBAR_VISIBLE, VSCROLLBAR_VISIBLE}
Contents == {30, 100}

WheelPane(table, scrolls) ==
    [PlainPane(WC_RIDE, 0, {}, 0, 0, 200, 100) EXCEPT !.widgets = table]
        @@ [scrolls |-> scrolls]

MainPane ==
    ViewPane(WC_MAIN_WINDOW, 0, {F_STICK_TO_BACK}, 0, 0, 400, 400,
             ZoomViewport(1, 64, 64)) @@ [scrolls |-> <<>>]

ScrollBlank == PlainPane("", 0, {}, 0, 0, 0, 0) @@ [scrolls |-> <<>>]

(* The scroll data of a table whose scroll views have the given flags. *)
ScrollsOf(table, flagSeq, content) ==
    [i \in 1 .. Len(flagSeq) |->
        Scroll(flagSeq[i], content,
               table[window_get_scroll_widget([widgets |-> table], i - 1) + 1])]

CountScrolls(table) == Cardinality({i \in 1 .. Len(table) : table[i].type = WWT_SCROLL})

(* The main window below one window with scroll views, whose           *)
(* scrollbars are visible or not.                                      *)
WheelScenes ==
    UNION {{<<MainPane, WheelPane(table, ScrollsOf(table, flagSeq, content))>> :
               content \in Contents,
               flagSeq \in {s \in SeqsUpTo(ScrollFlagSets, 2) :
                               Len(s) = CountScrolls(table)}} :
           table \in ScrollTables}

InitScrollWheel ==
    /\ \E q \in WheelScenes :
          /\ g_window_list = [i \in Slots |-> IF i < Len(q) THEN q[i + 1]
                                             ELSE ScrollBlank]
          /\ gWindowNextSlot = Len(q)
    /\ window_limit = WINDOW_LIMIT_MAX
    /\ crashed = FALSE
    /\ last = Idle
    /\ gUsingWidgetTextBox = FALSE
    /\ gCurrentTextBox = NoTextBox
    /\ EngineStill
    /\ MusicIdle
    /\ _previousAbsoluteWheel = 0
    /\ gInputFlags \in {{}, {INPUT_FLAG_5}}
    /\ gCurrentToolWidget = NoToolWidget
    /\ gCurrentToolId = 0
    /\ gMapSelectFlags = 0
    /\ moves = 0
    /\ _evalQueue = <<>>
    /\ evaluated = {}

(* Where the cursor is: over each widget column, between two columns,  *)
(* and beside the window, over the main window.                        *)
WheelPoints == {10, 45, 60, 110, 160, 390}
WheelRows == {10}

(* gConfigGeneral.zoom_to_cursor is off in the scenes of the wheel. *)
ZoomToCursor == FALSE

WheelPassArgs(x, y, pixel_scroll) ==
    [handle |-> NULL, x |-> x, y |-> y, wheel |-> pixel_scroll]

CommitWheel(args, r, ret, absolute_wheel) ==
    /\ g_window_list' = r.list
    /\ gWindowNextSlot' = r.n
    /\ crashed' = r.crashed
    /\ _previousAbsoluteWheel' = absolute_wheel
    /\ last' = [op |-> "all_wheel_input", args |-> args, ret |-> ret,
                pre |-> Live(Machine), prelimit |-> window_limit, log |-> r.log]
    /\ UNCHANGED <<window_limit, textVars, cameraVars, loopVars, gWindowUpdateTicks,
                   gInputFlags, gCurrentToolWidget, gCurrentToolId, gMapSelectFlags,
                   moves, musicVars, consoleVars>>

(* One wheel pass of the input loop. *)
AllWheelInput ==
    /\ Ready
    /\ \E absolute_wheel \in (-MaxWheel) .. MaxWheel, x \in WheelPoints,
          y \in WheelRows, blocked \in BOOLEAN, disabled \in BOOLEAN,
          anchor \in Anchors :
          LET r == window_all_wheel_input(Machine, _previousAbsoluteWheel,
                                          INPUT_FLAG_5 \in gInputFlags, absolute_wheel,
                                          x, y, blocked, disabled,
                                          ZoomToCursor, anchor)
          IN  CommitWheel(WheelPassArgs(x, y,
                              (absolute_wheel - _previousAbsoluteWheel)
                                  * WINDOW_SCROLL_PIXELS),
                          r.st, r.ret, absolute_wheel)

NextScrollWheel == AllWheelInput \/ Return

SpecScrollWheel == InitScrollWheel /\ [][NextScrollWheel]_vars

Visible(scroll) == scroll.flags \cap {HSCROLLBAR_VISIBLE, VSCROLLBAR_VISIBLE} # {}

(* The window of the pass before and after it. *)
WheelBefore == last.pre[last.ret.handle + 1]
WheelAfter == g_window_list[last.ret.handle]

Offsets(scroll) == <<scroll.h_left, scroll.v_top>>

(* The first scroll region of the window, in widget order, with a      *)
(* visible scrollbar; NULL when it has none.                           *)
FirstVisible(win) ==
    LET S == {j \in 1 .. Len(win.scrolls) : Visible(win.scrolls[j])}
    IN  IF S = {} THEN NULL ELSE (CHOOSE j \in S : \A k \in S : j <= k) - 1

(* The cursor was over a scroll region without a visible scrollbar. *)
OverHiddenBars ==
    /\ last.op = "all_wheel_input"
    /\ last.args.wheel # 0
    /\ INPUT_FLAG_5 \notin gInputFlags
    /\ last.ret.widgetIndex # -1
    /\ WidgetAt(WheelBefore, last.ret.widgetIndex).type = WWT_SCROLL
    /\ ~Visible(WheelBefore.scrolls[
            window_get_scroll_index(WheelBefore, last.ret.widgetIndex) + 1])

(* C31: a wheel event never changes the offsets of a scroll region     *)
(* with neither scrollbar visible; with the cursor over such a region  *)
(* the event goes to the first scroll region of the window, in widget  *)
(* order, that has a visible scrollbar, or to none.                    *)
C31_WheelTarget ==
    last.op = "all_wheel_input" =>
        /\ \A i \in 1 .. Len(last.pre) :
              \A j \in 1 .. Len(last.pre[i].scrolls) :
                  ~Visible(last.pre[i].scrolls[j]) =>
                      Offsets(g_window_list[i - 1].scrolls[j])
                          = Offsets(last.pre[i].scrolls[j])
        /\ OverHiddenBars =>
              /\ last.ret.scroll = FirstVisible(WheelBefore)
              /\ last.ret.route = IF FirstVisible(WheelBefore) = NULL THEN "none"
                                  ELSE "scroll"
              /\ \A j \in 1 .. Len(WheelBefore.scrolls) :
                    j # FirstVisible(WheelBefore) + 1 =>
                        WheelAfter.scrolls[j] = WheelBefore.scrolls[j]

(* The cursor was over a scroll region without scrollbars, and the     *)
(* scroll region after it, which has one, was scrolled.                *)
C31_Witness ==
    /\ OverHiddenBars
    /\ last.ret.route = "scroll"
    /\ last.ret.scroll > window_get_scroll_index(WheelBefore, last.ret.widgetIndex)
    /\ Offsets(WheelAfter.scrolls[last.ret.scroll + 1])
           # Offsets(WheelBefore.scrolls[last.ret.scroll + 1])

(* The cursor was over a scroll region without scrollbars and no       *)
(* scroll region of the window has one: nothing was scrolled.          *)
C31_WitnessNone ==
    /\ OverHiddenBars
    /\ last.ret.route = "none"
    /\ Len(WheelBefore.scrolls) = 2

(* The scroll region a wheel pass scrolled, and its widget. *)
ScrolledRegion == WheelAfter.scrolls[last.ret.scroll + 1]
ScrolledWidget ==
    WidgetAt(WheelAfter, window_get_scroll_widget(WheelAfter, last.ret.scroll))

VisibleExtent(extent, other) == extent - 1 - (IF other THEN 11 ELSE 0)

(* C38: after a wheel scroll of a scroll region the changed offset is  *)
(* inside the scrollable range: 0 <= v_top <= max(0, v_bottom -        *)
(* visible height) for a vertical scroll, 0 <= h_left <= max(0,        *)
(* h_right - visible width) for a horizontal one, the visible extent   *)
(* being the widget extent less 1, and less 11 more when the other     *)
(* scrollbar is visible.                                               *)
C38_OffsetInRange ==
    (last.op = "all_wheel_input" /\ last.ret.route = "scroll") =>
        IF VSCROLLBAR_VISIBLE \in ScrolledRegion.flags
        THEN /\ 0 <= ScrolledRegion.v_top
             /\ ScrolledRegion.v_top <=
                    Max(0, ScrolledRegion.v_bottom
                           - VisibleExtent(ScrolledWidget.bottom - ScrolledWidget.top,
                                           HSCROLLBAR_VISIBLE \in ScrolledRegion.flags))
        ELSE /\ 0 <= ScrolledRegion.h_left
             /\ ScrolledRegion.h_left <=
                    Max(0, ScrolledRegion.h_right
                           - VisibleExtent(ScrolledWidget.right - ScrolledWidget.left,
                                           VSCROLLBAR_VISIBLE \in ScrolledRegion.flags))

(* A wheel pass scrolled a region down as far as its range goes, short *)
(* of the wheel's step, with both scrollbars visible.                  *)
C38_Witness ==
    /\ last.op = "all_wheel_input"
    /\ last.ret.route = "scroll"
    /\ ScrolledRegion.flags = {HSCROLLBAR_VISIBLE, VSCROLLBAR_VISIBLE}
    /\ ScrolledRegion.v_top = ScrolledRegion.v_bottom - 48
    /\ ScrolledRegion.v_top < WheelBefore.scrolls[last.ret.scroll + 1].v_top + last.args.wheel

(* A wheel pass over a region whose content is smaller than its view   *)
(* left it at offset 0.                                                *)
C38_WitnessSmall ==
    /\ last.op = "all_wheel_input"
    /\ last.ret.route = "scroll"
    /\ last.args.wheel > 0
    /\ HSCROLLBAR_VISIBLE \in ScrolledRegion.flags
    /\ VSCROLLBAR_VISIBLE \notin ScrolledRegion.flags
    /\ ScrolledRegion.h_right < 39
    /\ ScrolledRegion.h_left = 0

(* ------------------------------------------------------------------ *)
(* Tool mode: tool_set and tool_cancel.                                *)
(* ------------------------------------------------------------------ *)
MaxTool == 2

INPUT_FLAG_TOOL_ACTIVE == "INPUT_FLAG_TOOL_ACTIVE"
INPUT_FLAG_6 == "INPUT_FLAG_6"

(* The input state the tool operations work on, beside the windows. *)
Tooling ==
    [st |-> Machine, flags |-> gInputFlags, widget |-> gCurrentToolWidget,
     id |-> gCurrentToolId, select |-> gMapSelectFlags]

ToolActive(t) == INPUT_FLAG_TOOL_ACTIVE \in t.flags

(* A window with its tool_abort entry: "abort" is a handler, "none" a  *)
(* null entry.                                                         *)
ToolWin(c, k, f, x, abort) == Win(c, k, f, x, 100, NoViewport, HNone) @@ [tool_abort |-> abort]

ToolTemplates ==
    { ToolWin(WC_RIDE, 0, {}, 40, "abort"),
      ToolWin(WC_PEEP, 0, {}, 10, "none"),
      ToolWin(WC_TOP_TOOLBAR, 0, {F_STICK_TO_FRONT}, 0, "abort") }

window_event_tool_abort_call(st, w, widgetIndex) ==
    IF st.list[w].tool_abort # "none"
    THEN Logged(st, Event("tool_abort", w, st.list[w], st, widgetIndex))
    ELSE st

RECURSIVE InvalidateByNumberLoop(_, _, _, _, _)
InvalidateByNumberLoop(st, w, cls, number, widgetIndex) ==
    IF w >= st.n THEN st
    ELSE InvalidateByNumberLoop(
             IF st.list[w].classification = cls /\ st.list[w].number = number
             THEN widget_invalidate(st, w, widgetIndex) ELSE st,
             w + 1, cls, number, widgetIndex)

widget_invalidate_by_number(st, cls, number, widgetIndex) ==
    InvalidateByNumberLoop(st, 0, cls, number, widgetIndex)

(* tool_cancel.  The two invalidations of the map selection are left   *)
(* to the map; they leave a mark in the log.                           *)
tool_cancel(t) ==
    LET s1 == Logged(t.st, Event("map_invalidate_selection", NULL, Blank, t.st, 0))
        s2 == widget_invalidate_by_number(s1, t.widget.window_classification,
                                          t.widget.window_number,
                                          t.widget.widget_index)
        w == window_find_by_number(s2, t.widget.window_classification,
                                   t.widget.window_number)
        s3 == IF w # NULL
              THEN window_event_tool_abort_call(s2, w, t.widget.widget_index)
              ELSE s2
    IN  IF ~ToolActive(t) THEN t
        ELSE [t EXCEPT !.flags = @ \ {INPUT_FLAG_TOOL_ACTIVE},
                       !.select = 0,
                       !.st = IF t.widget.widget_index # -1 THEN s3 ELSE s1]

(* The binding of a tool to a widget of a window. *)
Bind(t, w, widgetIndex, tool) ==
    [t EXCEPT !.flags = (@ \cup {INPUT_FLAG_TOOL_ACTIVE}) \ {INPUT_FLAG_6},
              !.id = tool,
              !.widget = [window_classification |-> t.st.list[w].classification,
                          window_number |-> t.st.list[w].number,
                          widget_index |-> widgetIndex]]

IsBound(t, w, widgetIndex) ==
    /\ t.st.list[w].classification = t.widget.window_classification
    /\ t.st.list[w].number = t.widget.window_number
    /\ widgetIndex = t.widget.widget_index

(* tool_set that binds over the active tool without cancelling it. *)
tool_set_rebind(t, w, widgetIndex, tool) ==
    IF ToolActive(t) /\ IsBound(t, w, widgetIndex)
    THEN Verdict(tool_cancel(t), TRUE)
    ELSE Verdict(Bind(t, w, widgetIndex, tool), FALSE)

tool_set(t, w, widgetIndex, tool) ==
    IF ToolActive(t) /\ IsBound(t, w, widgetIndex)
    THEN Verdict(tool_cancel(t), TRUE)
    ELSE Verdict(Bind(IF ToolActive(t) THEN tool_cancel(t) ELSE t, w, widgetIndex,
                      tool), FALSE)

(* No window is open, no tool is bound; the map selection and input    *)
(* flag 6 are as other input left them.                                *)
InitTool ==
    /\ g_window_list = [i \in Slots |-> Blank @@ [tool_abort |-> "none"]]
    /\ gWindowNextSlot = 0
    /\ window_limit = WINDOW_LIMIT_MAX
    /\ crashed = FALSE
    /\ last = Idle
    /\ gUsingWidgetTextBox = FALSE
    /\ gCurrentTextBox = NoTextBox
    /\ EngineStill
    /\ MusicIdle
    /\ _previousAbsoluteWheel = 0
    /\ gInputFlags \in {{}, {INPUT_FLAG_6}}
    /\ gCurrentToolWidget = NoToolWidget
    /\ gCurrentToolId = 0
    /\ gMapSelectFlags \in {0, 1}
    /\ moves = 0
    /\ _evalQueue = <<>>
    /\ evaluated = {}

ToolArgs(w, widgetIndex, tool) ==
    [handle |-> w, value |-> widgetIndex, tool |-> tool,
     active |-> ToolActive(Tooling), bound |-> gCurrentToolWidget,
     flags |-> gInputFlags, id |-> gCurrentToolId, select |-> gMapSelectFlags]

CommitTool(op, args, t, ret) ==
    /\ g_window_list' = t.st.list
    /\ gWindowNextSlot' = t.st.n
    /\ crashed' = t.st.crashed
    /\ gInputFlags' = t.flags
    /\ gCurrentToolWidget' = t.widget
    /\ gCurrentToolId' = t.id
    /\ gMapSelectFlags' = t.select
    /\ last' = [op |-> op, args |-> args, ret |-> ret, pre |-> Live(Machine),
                prelimit |-> window_limit, log |-> t.st.log]
    /\ UNCHANGED <<window_limit, textVars, cameraVars, loopVars, gWindowUpdateTicks,
                   _previousAbsoluteWheel, moves, musicVars, consoleVars>>

(* A window that can hold a tool is opened. *)
OpenToolWindow ==
    /\ Ready
    /\ gWindowNextSlot < MaxOpen
    /\ gWindowNextSlot < Capacity
    /\ \E t \in ToolTemplates :
          /\ window_find_by_number(Machine, t.classification, t.number) = NULL
          /\ LET r == window_create(Machine, t)
             IN  Commit("open", [NoArgs EXCEPT !.cls = t.classification,
                                               !.number = t.number], r.st, r.ret)
    /\ UNCHANGED window_limit

ToolSet ==
    /\ Ready
    /\ \E w \in 0 .. gWindowNextSlot - 1, widgetIndex \in (-1) .. MaxWidgetIndex,
          tool \in 1 .. MaxTool :
          LET r == tool_set(Tooling, w, widgetIndex, tool)
          IN  CommitTool("tool_set", ToolArgs(w, widgetIndex, tool), r.st, r.ret)

ToolCancel ==
    /\ Ready
    /\ CommitTool("tool_cancel", ToolArgs(NULL, 0, 0), tool_cancel(Tooling), NULL)

NextTool == OpenToolWindow \/ Close \/ ToolSet \/ ToolCancel \/ Return

SpecTool == InitTool /\ [][NextTool]_vars

ToolStep == last.op \in {"tool_set", "tool_cancel"}

(* The calls of a tool_abort handler made by the last operation. *)
Aborts == Cardinality({k \in 1 .. Len(last.log) : last.log[k].e = "tool_abort"})

(* The windows the tool was bound to when the operation began. *)
BoundBefore ==
    {i \in 1 .. Len(last.pre) :
        /\ last.pre[i].classification = last.args.bound.window_classification
        /\ last.pre[i].number = last.args.bound.window_number}

(* The operation was tool_set on the binding that was active. *)
SameBinding ==
    /\ last.args.active
    /\ last.pre[last.args.handle + 1].classification
           = last.args.bound.window_classification
    /\ last.pre[last.args.handle + 1].number = last.args.bound.window_number
    /\ last.args.value = last.args.bound.widget_index

ToolNow == INPUT_FLAG_TOOL_ACTIVE \in gInputFlags

(* What tool_set and tool_cancel do apart from the calls of the        *)
(* tool-abort handler.                                                 *)
ToolBinding ==
    /\ (last.op = "tool_set" /\ SameBinding) =>
          /\ last.ret = TRUE
          /\ ~ToolNow
          /\ gMapSelectFlags = 0
    /\ (last.op = "tool_set" /\ ~SameBinding) =>
          /\ last.ret = FALSE
          /\ ToolNow
          /\ gCurrentToolId = last.args.tool
          /\ gCurrentToolWidget =
                 [window_classification |->
                      last.pre[last.args.handle + 1].classification,
                  window_number |-> last.pre[last.args.handle + 1].number,
                  widget_index |-> last.args.value]
          /\ last.args.active =>
                /\ last.log # <<>>
                /\ last.log[1].e = "map_invalidate_selection"
                /\ gMapSelectFlags = 0
          /\ ~last.args.active =>
                /\ last.log = <<>>
                /\ gMapSelectFlags = last.args.select
    /\ (last.op = "tool_cancel" /\ last.args.active) =>
          /\ ~ToolNow
          /\ gMapSelectFlags = 0
    /\ (last.op = "tool_cancel" /\ ~last.args.active) =>
          /\ gInputFlags = last.args.flags
          /\ gCurrentToolWidget = last.args.bound
          /\ gCurrentToolId = last.args.id
          /\ gMapSelectFlags = last.args.select
          /\ Live(Machine) = last.pre
          /\ last.log = <<>>
    /\ ToolStep =>
          /\ Aborts <= 1
          /\ Aborts = 1 => last.args.active
          /\ Live(Machine) = last.pre

(* C33 as stated: tool_set on the active binding cancels it and        *)
(* returns true, tool_set on another binding cancels the active tool,  *)
(* binds and returns false; for each activation the tool-abort handler *)
(* of the bound window is called at most once, and exactly once if the *)
(* window still exists when the tool is cancelled or replaced;         *)
(* tool_cancel with no active tool changes nothing.                    *)
C33_AbortWhenWindowExists ==
    /\ ToolBinding
    /\ (ToolStep /\ last.args.active) =>
          ((\E i \in BoundBefore : last.pre[i].tool_abort # "none") => Aborts = 1)

(* C33: the same, the tool-abort handler being called exactly once if  *)
(* the window still exists and the tool was bound to a widget of it,   *)
(* and not at all for a tool bound with widget index -1.               *)
C33_AbortWhenWidgetBound ==
    /\ ToolBinding
    /\ (ToolStep /\ last.args.active) =>
          (Aborts = 1 <=>
              /\ last.args.bound.widget_index # -1
              /\ \E i \in BoundBefore : last.pre[i].tool_abort # "none")
    /\ (ToolStep /\ Aborts = 1) =>
          \E k \in 1 .. Len(last.log) :
              /\ last.log[k].e = "tool_abort"
              /\ last.log[k].cls = last.args.bound.window_classification
              /\ last.log[k].number = last.args.bound.window_number
              /\ last.log[k].depth = last.args.bound.widget_index

(* A tool bound to a widget of an open window was replaced by a tool   *)
(* of another window, and the first window's handler was called.       *)
C33_Witness ==
    /\ last.op = "tool_set"
    /\ last.args.active
    /\ ~SameBinding
    /\ last.args.bound.widget_index # -1
    /\ Aborts = 1
    /\ gCurrentToolWidget.window_classification
           # last.args.bound.window_classification

(* A tool bound with widget index -1 to a window that is still open    *)
(* was cancelled: its handler was not called.                          *)
C33_WitnessUnbound ==
    /\ last.op = "tool_cancel"
    /\ last.args.active
    /\ last.args.bound.widget_index = -1
    /\ \E i \in BoundBefore : last.pre[i].tool_abort # "none"
    /\ Aborts = 0

(* A tool was cancelled after its window was closed. *)
C33_WitnessClosed ==
    /\ last.op = "tool_cancel"
    /\ last.args.active
    /\ BoundBefore = {}
    /\ Aborts = 0

(* ------------------------------------------------------------------ *)
(* The operations that move a window, and the viewport it owns.        *)
(* ------------------------------------------------------------------ *)
MaxMoves == 2

Apart(a, b) ==
    \/ b.x >= a.x + a.width
    \/ b.x + b.width <= a.x
    \/ b.y >= a.y + a.height
    \/ b.y + b.height <= a.y

(* The push that leaves the viewport of the pushed window behind. *)
RECURSIVE PushRightLoop_window_only(_, _, _)
PushRightLoop_window_only(st, window, w) ==
    LET a == st.list[window]
        b == st.list[w]
        push_amount == U16(a.x + a.width - b.x + 3)
        s1 == Logged(st, Event("invalidate", w, b, st, 0))
        s2 == [s1 EXCEPT !.list[w].x = @ + push_amount]
    IN  IF w >= st.n THEN st
        ELSE IF w = window \/ IsSticky(b) \/ Apart(a, b)
        THEN PushRightLoop_window_only(st, window, w + 1)
        ELSE IF a.x + a.width + 13 >= context_get_width
        THEN PushRightLoop_window_only(s1, window, w + 1)
        ELSE PushRightLoop_window_only(
                 Logged(s2, Event("invalidate", w, s2.list[w], s2, 0)), window, w + 1)

window_push_others_right_window_only(st, window) ==
    PushRightLoop_window_only(st, window, 0)

RECURSIVE PushRightLoop(_, _, _)
PushRightLoop(st, window, w) ==
    LET a == st.list[window]
        b == st.list[w]
        push_amount == U16(a.x + a.width - b.x + 3)
        s1 == Logged(st, Event("invalidate", w, b, st, 0))
        s2 == [s1 EXCEPT !.list[w].x = @ + push_amount,
                         !.list[w].viewport.x =
                             IF b.viewport.present THEN @ + push_amount ELSE @]
    IN  IF w >= st.n THEN st
        ELSE IF w = window \/ IsSticky(b) \/ Apart(a, b)
        THEN PushRightLoop(st, window, w + 1)
        ELSE IF a.x + a.width + 13 >= context_get_width
        THEN PushRightLoop(s1, window, w + 1)
        ELSE PushRightLoop(Logged(s2, Event("invalidate", w, s2.list[w], s2, 0)),
                           window, w + 1)

window_push_others_right(st, window) == PushRightLoop(st, window, 0)

RECURSIVE PushBelowLoop(_, _, _)
PushBelowLoop(st, w1, w2) ==
    LET a == st.list[w1]
        b == st.list[w2]
        push_amount == a.y + a.height - b.y + 3
        s1 == Logged(st, Event("invalidate", w2, b, st, 0))
        s2 == [s1 EXCEPT !.list[w2].y = @ + push_amount,
                         !.list[w2].viewport.y =
                             IF b.viewport.present THEN @ + push_amount ELSE @]
    IN  IF w2 >= st.n THEN st
        ELSE IF \/ w1 = w2
                \/ IsSticky(b)
                \/ b.x > a.x + a.width \/ b.x + b.width < a.x
                \/ b.y > a.y + a.height \/ b.y + b.height < a.y
                \/ a.y + a.height + 80 >= context_get_height
        THEN PushBelowLoop(st, w1, w2 + 1)
        ELSE PushBelowLoop(Logged(s2, Event("invalidate", w2, s2.list[w2], s2, 0)),
                           w1, w2 + 1)

window_push_others_below(st, w1) == PushBelowLoop(st, w1, 0)

RECURSIVE RelocateLoop(_, _, _, _, _)
RelocateLoop(st, w, width, height, new_location) ==
    LET rec == st.list[w]
        x == rec.x
        y == rec.y
        stays == /\ rec.x + 10 < width
                 /\ \/ IsSticky(rec) /\ rec.y - 22 < height
                    \/ rec.y + 10 < height
        moved == [rec EXCEPT !.x = new_location,
                             !.y = new_location + TOP_TOOLBAR_HEIGHT + 1]
        synced == IF rec.viewport.present
                  THEN [moved EXCEPT !.viewport.x = @ - (x - moved.x),
                                     !.viewport.y = @ - (y - moved.y)]
                  ELSE moved
    IN  IF w >= st.n THEN st
        ELSE IF stays THEN RelocateLoop(st, w + 1, width, height, new_location)
        ELSE RelocateLoop([st EXCEPT !.list[w] = synced], w + 1, width, height,
                          new_location + 8)

window_relocate_windows(st, width, height) == RelocateLoop(st, 0, width, height, 8)

MovePane(c, k, x, y, vp) ==
    [Pane(c, k, {}, x, y, 20, 10, <<Terminator>>) EXCEPT !.viewport = vp]

(* Windows that overlap, one of them hanging over the left edge of the *)
(* screen, and one without a viewport.                                 *)
MoveTemplates ==
    { MovePane(WC_RIDE, 0, 30, 5, ScreenViewportAt(32, 7)),
      MovePane(WC_RIDE, 1, -15, 8, ScreenViewportAt(-12, 9)),
      MovePane(WC_PEEP, 1, 45, 8, NoViewport) }

MoveScenes ==
    {<<SnapMain>> \o q : q \in {r \in SeqsUpTo(MoveTemplates, MaxOpen) :
                                  /\ r # <<>>
                                  /\ \A i, j \in 1 .. Len(r) :
                                        i < j => Key(r[i]) # Key(r[j])}}

InitMove ==
    /\ \E q \in MoveScenes :
          /\ g_window_list = ListOf(q)
          /\ gWindowNextSlot = Len(q)
    /\ window_limit = WINDOW_LIMIT_MAX
    /\ crashed = FALSE
    /\ last = Idle
    /\ gUsingWidgetTextBox = FALSE
    /\ gCurrentTextBox = NoTextBox
    /\ EngineIdle

MoveArgs(w, x, y) == [handle |-> w, x |-> x, y |-> y]

CommitMove(op, args, r, ret) ==
    /\ moves < MaxMoves
    /\ moves' = moves + 1
    /\ g_window_list' = r.list
    /\ gWindowNextSlot' = r.n
    /\ crashed' = r.crashed
    /\ last' = [op |-> op, args |-> args, ret |-> ret, pre |-> Live(Machine),
                prelimit |-> window_limit, log |-> r.log]
    /\ UNCHANGED <<window_limit, textVars, cameraVars, loopVars, gWindowUpdateTicks,
                   inputVars, musicVars, consoleVars>>

MoveSteps == {<<-25, 0>>, <<0, 0>>, <<40, 15>>}
MoveTargets == {<<5, 35>>, <<70, 60>>}
SnapTargets == {<<30, 36>>, <<43, 80>>}
ScreenSizes == {<<100, 100>>, <<40, 40>>}

MovePosition ==
    /\ Ready
    /\ \E w \in 0 .. gWindowNextSlot - 1, d \in MoveSteps :
          CommitMove("move_position", MoveArgs(w, d[1], d[2]),
                     window_move_position(Machine, w, d[1], d[2]), NULL)

SetPosition ==
    /\ Ready
    /\ \E w \in 0 .. gWindowNextSlot - 1, p \in MoveTargets :
          CommitMove("set_position", MoveArgs(w, p[1], p[2]),
                     window_set_position(Machine, w, p[1], p[2]), NULL)

MoveAndSnapAny ==
    /\ Ready
    /\ \E w \in 1 .. gWindowNextSlot - 1, p \in SnapTargets,
          proximity \in {0, MaxProximity}, titleDemo \in BOOLEAN :
          CommitMove("move_and_snap", MoveArgs(w, p[1], p[2]),
                     window_move_and_snap(Machine, w, p[1], p[2], proximity,
                                          titleDemo), NULL)

BringToFrontMoved ==
    /\ Ready
    /\ \E w \in 0 .. gWindowNextSlot - 1 :
          LET r == window_bring_to_front(Machine, w)
          IN  CommitMove("bring_to_front", MoveArgs(w, 0, 0), r.st, r.ret)

PushOthersRight ==
    /\ Ready
    /\ \E w \in 0 .. gWindowNextSlot - 1 :
          CommitMove("push_others_right", MoveArgs(w, 0, 0),
                     window_push_others_right(Machine, w), NULL)

PushOthersBelow ==
    /\ Ready
    /\ \E w \in 0 .. gWindowNextSlot - 1 :
          CommitMove("push_others_below", MoveArgs(w, 0, 0),
                     window_push_others_below(Machine, w), NULL)

RelocateWindows ==
    /\ Ready
    /\ \E s \in ScreenSizes :
          CommitMove("relocate_windows", MoveArgs(NULL, s[1], s[2]),
                     window_relocate_windows(Machine, s[1], s[2]), NULL)

NextMove ==
    \/ MovePosition \/ SetPosition \/ MoveAndSnapAny \/ BringToFrontMoved
    \/ PushOthersRight \/ PushOthersBelow \/ RelocateWindows \/ Return

SpecMove == InitMove /\ [][NextMove]_vars

ViewportOffset(rec) == <<rec.viewport.x - rec.x, rec.viewport.y - rec.y>>

(* The window as its constructor made it. *)
Created(rec) == CHOOSE t \in MoveTemplates \cup {SnapMain} : Key(t) = Key(rec)

(* C34: after any sequence of movePosition, setPosition, moveAndSnap,  *)
(* bringToFront, pushOthersRight, pushOthersBelow and relocateWindows  *)
(* calls the offset between a window's position and the screen         *)
(* position of the viewport it owns is what it was at creation.        *)
C34_ViewportOffsetKept ==
    \A i \in 0 .. gWindowNextSlot - 1 :
        g_window_list[i].viewport.present =>
            ViewportOffset(g_window_list[i]) = ViewportOffset(Created(g_window_list[i]))

MovedFrom(i) ==
    CHOOSE j \in 1 .. Len(last.pre) : Key(last.pre[j]) = Key(g_window_list[i])

(* A push to the right has moved a window that owns a viewport, after  *)
(* another operation had moved windows already.                        *)
C34_Witness ==
    /\ last.op = "push_others_right"
    /\ moves = MaxMoves
    /\ \E i \in 0 .. gWindowNextSlot - 1 :
          /\ g_window_list[i].viewport.present
          /\ g_window_list[i].x > last.pre[MovedFrom(i)].x

(* relocateWindows has put a second window with a viewport back on    *)
(* the screen.                                                         *)
C34_WitnessRelocated ==
    /\ last.op = "relocate_windows"
    /\ \E i \in 0 .. gWindowNextSlot - 1 :
          /\ g_window_list[i].viewport.present
          /\ g_window_list[i].x = 16
          /\ g_window_list[i].y = 16 + TOP_TOOLBAR_HEIGHT + 1

(* A push down has moved a window that owns a viewport. *)
C34_WitnessBelow ==
    /\ last.op = "push_others_below"
    /\ \E i \in 0 .. gWindowNextSlot - 1 :
          /\ g_window_list[i].viewport.present
          /\ g_window_list[i].y > last.pre[MovedFrom(i)].y

(* bringToFront has pulled a window with a viewport back from the     *)
(* left edge of the screen.                                            *)
C34_WitnessNudged ==
    /\ last.op = "bring_to_front"
    /\ \E i \in 0 .. gWindowNextSlot - 1 :
          /\ g_window_list[i].viewport.present
          /\ g_window_list[i].x = 20
          /\ last.pre[MovedFrom(i)].x < 0

(* ------------------------------------------------------------------ *)
(* The recursion of window_draw, and what a redraw leaves out.         *)
(* ------------------------------------------------------------------ *)
Area(rect) == Max(0, rect.right - rect.left) * Max(0, rect.bottom - rect.top)

(* What the recursion descends on: the width and the height of the    *)
(* rectangle, an empty or inverted extent counting for nothing.        *)
Size(rect) == Max(0, rect.right - rect.left) + Max(0, rect.bottom - rect.top)

Within(part, rect) ==
    /\ rect.left <= part.left
    /\ part.right <= rect.right
    /\ rect.top <= part.top
    /\ part.bottom <= rect.bottom

(* The machine as the last operation found it. *)
Before ==
    [list |-> [i \in Slots |-> IF i < Len(last.pre) THEN last.pre[i + 1]
                               ELSE g_window_list[i]],
     n |-> Len(last.pre), log |-> <<>>, crashed |-> FALSE]

RECURSIVE Regions(_, _, _)
(* The regions the draw of window w over the rectangle comes to: the   *)
(* rectangle, and the regions of the two parts it is split into.       *)
Regions(st, w, rect) ==
    LET topwindow == FirstOccluder(st, w, rect)
        parts == SplitAt(st.list[topwindow], rect)
    IN  IF topwindow = NULL THEN {rect}
        ELSE {rect} \cup UNION {Regions(st, w, parts[k]) : k \in 1 .. Len(parts)}

RECURSIVE Depth(_, _, _)
(* How deep the draw of window w over the rectangle recurses. *)
Depth(st, w, rect) ==
    LET topwindow == FirstOccluder(st, w, rect)
        parts == SplitAt(st.list[topwindow], rect)
    IN  IF topwindow = NULL \/ parts = <<>> THEN 0
        ELSE 1 + Max(Depth(st, w, parts[1]), Depth(st, w, parts[2]))

PaintCalls == {k \in 1 .. Len(last.log) : last.log[k].e = "paint"}

(* C35: draw(w, rect) terminates: each split recurses on two           *)
(* rectangles that are both strictly smaller than the rectangle split, *)
(* so the depth of the recursion and the number of paint calls are     *)
(* finite, bounded by the size and the area of the rectangle.          *)
C35_SplitsShrink ==
    last.op = "draw" =>
        LET st == Before
            w == last.args.handle
        IN  /\ \A region \in Regions(st, w, last.args.rect) :
                  LET topwindow == FirstOccluder(st, w, region)
                      parts == SplitAt(st.list[topwindow], region)
                  IN  topwindow # NULL =>
                          /\ Len(parts) \in {0, 2}
                          /\ \A k \in 1 .. Len(parts) :
                                /\ Within(parts[k], region)
                                /\ Size(parts[k]) < Size(region)
            /\ Depth(st, w, last.args.rect) <= Size(last.args.rect)
            /\ Cardinality(PaintCalls) <= Area(last.args.rect) * Len(last.pre)

(* A draw was split and split again, and painted the window in three   *)
(* regions or more.                                                    *)
C35_Witness ==
    /\ last.op = "draw"
    /\ Cardinality(PaintsOf(last.args.handle)) >= 3
    /\ FirstOccluder(Before, last.args.handle, last.args.rect) # NULL

(* No cache of the visibility was set when the operation began. *)
AfterReset == \A i \in 1 .. Len(last.pre) : last.pre[i].visibility = VC_UNKNOWN

(* Window i is not transparent, meets the redrawn rectangle, and every *)
(* window above it that meets it is transparent.                       *)
UnderTransparentOnly(i) ==
    /\ F_TRANSPARENT \notin g_window_list[i].flags
    /\ Cells(Bounds(g_window_list[i])) \cap Cells(last.args.rect) # {}
    /\ \A o \in (i + 1) .. (gWindowNextSlot - 1) :
          Cells(Bounds(g_window_list[o])) \cap Cells(Bounds(g_window_list[i])) # {}
              => F_TRANSPARENT \in g_window_list[o].flags

(* C36: the redraw skips a window only when an opaque window hides it: *)
(* if every window above w whose bounds contain w's bounds is          *)
(* transparent (here: every window above w that meets it at all), then *)
(* after a visibility reset drawAll over a rectangle that overlaps w   *)
(* calls w's paint handler.                                            *)
C36_PaintedUnderTransparent ==
    (last.op = "draw_all" /\ AfterReset) =>
        \A i \in 0 .. gWindowNextSlot - 1 :
            UnderTransparentOnly(i) => PaintsOf(i) # {}

(* The same for the windows that own no viewport, and the main window. *)
C36_PaintedWithoutViewport ==
    (last.op = "draw_all" /\ AfterReset) =>
        \A i \in 0 .. gWindowNextSlot - 1 :
            (/\ UnderTransparentOnly(i)
             /\ \/ ~g_window_list[i].viewport.present
                \/ g_window_list[i].classification = WC_MAIN_WINDOW)
                => PaintsOf(i) # {}

====
